---- MODULE Spec2Model ----
(***************************************************************************)
(* Videoflix front-end: the session state of AuthService and the HTTP      *)
(* authorization interceptor, as a state machine.                          *)
(*                                                                         *)
(* Two deployments are found in the source and are modelled side by side:  *)
(*   "cookie"  AuthService of shared/services/auth.service.ts with the     *)
(*             cookie interceptor (auth.guard.ts 256-292);                 *)
(*   "token"   AuthService of shared/services/notification.service.ts      *)
(*             (the revision that reads a bearer token from localStorage)  *)
(*             with the token-refresh interceptor (auth.guard.ts 159-233). *)
(* The token deployment comes with refreshToken() as the source has it (a  *)
(* stub that fails at once: "tokenStub") and with a refreshToken() that    *)
(* posts to token/refresh/ as the specification describes: "tokenHttp".    *)
(* One step of the model is one turn of the JavaScript event loop: a call  *)
(* made by a component, or the arrival of one HTTP response together with  *)
(* every synchronous callback it triggers.                                 *)
(*                                                                         *)
(* The specifications share the variables: Spec (the deployments above),   *)
(* SessionSpec (the cookie AuthService with each next() call of a step and *)
(* a subscriber of its streams), ErrSpec (handleErrorResponse applied to a *)
(* bounded set of errors), RaceSpec (login attempts in flight together),   *)
(* LogoutSpec (logout() while login and validateSession calls are in      *)
(* flight), GuardSpec (AuthGuard on the route /videos), VideoSpec          *)
(* (VideoService), RegisterSpec (the Register component and its form),     *)
(* PlayerSpec (a VideoPlayer, its Hls instances and NotificationService),  *)
(* ListSpec (the VideoList page and its timers), LoginSpec (the Login      *)
(* component) and ActivateSpec (the Activate component).                   *)
(***************************************************************************)
EXTENDS Integers, FiniteSets, Sequences, TLC

VARIABLES
  deploy,                  \* "cookie" | "tokenStub" | "tokenHttp"
  isAuthenticatedSubject,  \* BehaviorSubject<boolean> of AuthService
  currentUserSubject,      \* BehaviorSubject<User | null> of AuthService
  localStorage,            \* the keys access_token and refresh_token
  isRefreshing,            \* module variable of the token interceptor
  refreshTokenSubject,     \* value of the interceptor's BehaviorSubject
  reqs,                    \* the HTTP requests in flight, by slot
  url,                     \* the router's current location
  last,                    \* the step that produced this state (history)
  observer,                \* a subscriber of isAuthenticated$ and currentUser$
  emitted,                 \* the values passed to next() since it subscribed
  errorIn,                 \* the error handleErrorResponse is called with
  thrown,                  \* the ApiResponse handleErrorResponse throws
  race,                    \* login attempts: order of issue and of arrival
  guard,                   \* AuthGuard: the navigation it is deciding
  videoService,            \* the three BehaviorSubjects of VideoService
  register,                \* the Register component
  videoList,               \* the VideoList page and the timers it has set
  player,                  \* a VideoPlayer and the Hls instances it created
  notification,            \* NotificationService, its timers and the clock
  login,                   \* the Login component
  activate                 \* the Activate component

\* The subscriber and its log belong to the emission-level specification of
\* the Session Manager, errorIn and thrown to the one of handleErrorResponse.
obsVars == <<observer, emitted>>

errVars == <<errorIn, thrown>>

\* The state of AuthService, of the interceptor and of the router.
sessVars == <<deploy, isAuthenticatedSubject, currentUserSubject, localStorage,
              isRefreshing, refreshTokenSubject, reqs, url>>

\* The variables of the specifications of single components.
pageVars == <<videoList, player, notification, login, activate>>

compVars == <<race, guard, videoService, register, pageVars>>

vars == <<deploy, isAuthenticatedSubject, currentUserSubject, localStorage,
          isRefreshing, refreshTokenSubject, reqs, url, last, observer, emitted,
          errorIn, thrown, race, guard, videoService, register, videoList,
          player, notification, login, activate>>

(***************************************************************************)
(* Bounds and value sets                                                   *)
(***************************************************************************)
MaxReq == 2

MaxNest == 1

Req == 1..MaxReq

Null == "null"

Users == {"u1", "u2"}

Tokens == {"t1", "t2"}

Keys == {"access_token", "refresh_token"}

LoginUrl == "/auth/login"

StartUrl == "/"

\* HTTP error statuses: 0 is a transport failure, 401 unauthorized, 500 any other.
ErrorStatus == {0, 401, 500}

\* Bodies of a 2xx login response: no body at all, a body without `user`,
\* or a body carrying a user.
NullBody == "nullbody"

NoUserBody == "nouser"

LoginBodies == {NullBody, NoUserBody} \cup Users

HttpErrorResponse(s) == [kind |-> "HttpErrorResponse", status |-> s]

SessionExpired == [kind |-> "Error: Session expired. Please login again.", status |-> -1]

NotSupported == [kind |-> "Error: Session-based authentication does not support token refresh", status |-> -1]

TypeError == [kind |-> "TypeError", status |-> -1]

NoError == [kind |-> "none", status |-> -1]

(***************************************************************************)
(* AuthService: the session and its synchronous reads                      *)
(***************************************************************************)
Session == [auth |-> isAuthenticatedSubject, user |-> currentUserSubject,
            store |-> localStorage]

EmptyStore == [k \in Keys |-> Null]

getToken(s) == s.store["access_token"]

isAuthenticatedCookie(s) == s.auth

isAuthenticatedToken(s) ==
  LET hasAuthStatus == s.auth
      hasUser == s.user # Null
      hasToken == getToken(s) # Null
  IN  hasToken \/ (hasAuthStatus /\ hasUser)

isAuthenticated(s) ==
  IF deploy = "cookie" THEN isAuthenticatedCookie(s) ELSE isAuthenticatedToken(s)

getCurrentUser(s) == s.user

\* A faulty logout: the current user is left in place.
logoutKeepsUser(s) == [auth |-> FALSE, user |-> s.user, store |-> EmptyStore]

\* A faulty logout: the stored tokens are left in place.
logoutKeepsTokens(s) == [auth |-> FALSE, user |-> Null, store |-> s.store]

\* removeTokens(), then currentUserSubject.next(null), isAuthenticatedSubject.next(false)
logout(s) == [auth |-> FALSE, user |-> Null, store |-> EmptyStore]

\* What an operation hands to its subscriber.
Delivered(kind, ok, err) == [kind |-> kind, ok |-> ok, err |-> err]

Nothing == Delivered("none", FALSE, NoError)

\* handleSuccessResponse: dereferences the body (response.message), so a null
\* body raises a TypeError inside the map callback.
handleSuccessResponse(body) ==
  IF body = NullBody THEN Delivered("throw", FALSE, TypeError)
  ELSE Delivered("ApiResponse", TRUE, NoError)

\* A faulty handleErrorResponse: the error is thrown on as it came.
handleErrorResponseRethrows(err) == Delivered("error", FALSE, err)

\* handleErrorResponse: always a failed envelope, raised as an error notification.
handleErrorResponse(err) == Delivered("ApiResponse", FALSE, NoError)

\* A faulty loginMap: a user already held is not replaced.
loginMapKeepsFirstUser(s, body) ==
  LET result == handleSuccessResponse(body)
  IN  IF result.kind = "throw"
      THEN [s |-> s, out |-> handleErrorResponse(result.err)]
      ELSE [s |-> [s EXCEPT !.auth = TRUE,
                            !.user = IF body \in Users /\ @ = Null THEN body ELSE @],
            out |-> result]

\* The map callback of login for a 2xx response.
loginMap(s, body) ==
  LET result == handleSuccessResponse(body)
  IN  IF result.kind = "throw"
      THEN [s |-> s, out |-> handleErrorResponse(result.err)]
      ELSE [s |-> [s EXCEPT !.auth = TRUE,
                            !.user = IF body \in Users THEN body ELSE @],
            out |-> result]

\* The catchError callback of login.
loginCatch(s, err) == [s |-> s, out |-> handleErrorResponse(err)]

\* A faulty validateSessionMap: the user is reset with the flag.
validateSessionMapDropsUser(s) ==
  [s |-> [s EXCEPT !.auth = TRUE, !.user = Null],
   out |-> Delivered("boolean", TRUE, NoError)]

\* validateSession of auth.service.ts: map and catchError callbacks.
validateSessionMap(s) ==
  [s |-> [s EXCEPT !.auth = TRUE], out |-> Delivered("boolean", TRUE, NoError)]

\* A faulty validateSessionCatch: the current user is not cleared.
validateSessionCatchKeepsUser(s, err) ==
  [s |-> [s EXCEPT !.auth = FALSE], out |-> Delivered("boolean", FALSE, NoError)]

validateSessionCatch(s, err) ==
  [s |-> [s EXCEPT !.auth = FALSE, !.user = Null],
   out |-> Delivered("boolean", FALSE, NoError)]

\* validateSession of notification.service.ts: an envelope, no state change.
validateSessionTokenMap(s) == [s |-> s, out |-> handleSuccessResponse(NoUserBody)]

validateSessionTokenCatch(s, err) == [s |-> s, out |-> handleErrorResponse(err)]

\* getCSRFToken: a bare http.get, the response or the error reaches the caller as is.
getCSRFTokenMap(s) == [s |-> s, out |-> Delivered("response", TRUE, NoError)]

getCSRFTokenCatch(s, err) == [s |-> s, out |-> Delivered("error", FALSE, err)]

Ops == {"login", "validateSession", "getCSRFToken"}

\* The operation's handling of a 2xx response with the given body.
onSuccess(op, s, body) ==
  CASE op = "login" -> loginMap(s, body)
    [] op = "validateSession" ->
         IF deploy = "cookie" THEN validateSessionMap(s) ELSE validateSessionTokenMap(s)
    [] OTHER -> getCSRFTokenMap(s)

\* The operation's handling of the error the interceptor lets through.
onError(op, s, err) ==
  CASE op = "login" -> loginCatch(s, err)
    [] op = "validateSession" ->
         IF deploy = "cookie" THEN validateSessionCatch(s, err)
         ELSE validateSessionTokenCatch(s, err)
    [] OTHER -> getCSRFTokenCatch(s, err)

(***************************************************************************)
(* Cookie interceptor                                                      *)
(***************************************************************************)
\* A faulty handle401ErrorCookie: the redirect without the logout.
handle401ErrorCookieNoLogout(s) == [s |-> s, nav |-> TRUE, err |-> SessionExpired]

\* handle401Error (cookie): logout(), navigate to /auth/login, a new error.
handle401ErrorCookie(s) == [s |-> logout(s), nav |-> TRUE, err |-> SessionExpired]

\* A faulty authInterceptorCookie: the status is not compared with 401.
authInterceptorCookieAnyStatus(s, error) ==
  IF error.kind = "HttpErrorResponse"
  THEN [s |-> logout(s), nav |-> TRUE, err |-> SessionExpired]
  ELSE [s |-> s, nav |-> FALSE, err |-> error]

\* catchError of authInterceptor (cookie).
authInterceptorCookie(s, error) ==
  IF error.kind = "HttpErrorResponse" /\ error.status = 401
  THEN handle401ErrorCookie(s)
  ELSE [s |-> s, nav |-> FALSE, err |-> error]

(***************************************************************************)
(* Token-refresh interceptor and the token handling of AuthService         *)
(***************************************************************************)
\* checkAuthStatus, run by the constructor: a stored token means authenticated.
checkAuthStatus(store) == store["access_token"] # Null

\* A faulty addToken: a request that already has a header keeps it.
addTokenKeepsHeader(hdr, s) == IF hdr # Null THEN hdr ELSE getToken(s)

\* addToken: the request cloned with the stored token as its Authorization
\* header, or the request as it is (old header included) without a stored token.
addToken(hdr, s) == IF getToken(s) # Null THEN getToken(s) ELSE hdr

\* The credentials a request leaves with: the cookie interceptor only sets
\* withCredentials, the token interceptor calls addToken.
attach(s) == IF deploy = "cookie" THEN Null ELSE addToken(Null, s)

\* setToken: localStorage.setItem('access_token', token).
setToken(s, t) == [s EXCEPT !.store["access_token"] = t]

\* refreshToken() of the token variant on a 2xx answer of token/refresh/: the
\* new access token is stored before the response is handed on. This revision
\* of the method is not in the source tree; it follows the specification
\* (the retry carries the token of the refresh, tokens live in localStorage).
refreshTokenStored(s, t) == setToken(s, t)

\* refreshTokenSubject.next(token): every subscriber of the wait branch passes its
\* filter when the token is not null and re-sends its request through next().
releaseWaiters(rq, token, s) ==
  [x \in DOMAIN rq |->
     IF token = Null THEN rq[x]
     ELSE CASE rq[x].st = "waiting" ->
                 [rq[x] EXCEPT !.st = "retryWaiter", !.hdr = addToken(@, s)]
            [] rq[x].st = "refreshWaiting" ->
                 [rq[x] EXCEPT !.st = "refreshRetry", !.hdr = addToken(@, s)]
            [] OTHER -> rq[x]]

\* The catchError branch of handle401Error: it follows the switchMap, so it
\* receives a failed refresh and also a failed retry of the initiating request.
handle401ErrorCatch(s, error) == [s |-> logout(s), nav |-> TRUE, err |-> error]

\* catchError of authInterceptor (token): only an HttpErrorResponse with status
\* 401 goes to handle401Error, everything else is thrown on as it is.
authInterceptorToken(error) ==
  IF error.kind = "HttpErrorResponse" /\ error.status = 401
  THEN "handle401Error" ELSE "throwError"

\* The if of handle401Error: start a refresh, or wait for the one in progress.
handle401ErrorBranch(refreshing) == IF ~refreshing THEN "refresh" ELSE "wait"

(***************************************************************************)
(* The envelope operations and their place in the operation tables         *)
(***************************************************************************)
\* register, forgotPassword, resetPassword and activateAccount share one
\* pipe: map(handleSuccessResponse), catchError(handleErrorResponse).
EnvelopeOps == {"register", "forgotPassword", "resetPassword", "activateAccount"}

\* The operations of the cookie AuthService that the emission-level
\* specification follows.
SessionOps == EnvelopeOps \cup {"login", "validateSession"}

\* The map callback of the envelope operations: a null body raises inside
\* handleSuccessResponse and the pipe's catchError turns it into an envelope.
registerMap(s, body) ==
  LET result == handleSuccessResponse(body)
  IN  IF result.kind = "throw"
      THEN [s |-> s, out |-> handleErrorResponse(result.err)]
      ELSE [s |-> s, out |-> result]

\* A faulty registerCatch: the failure also clears the session.
registerCatchClears(s, err) ==
  [s |-> [s EXCEPT !.auth = FALSE, !.user = Null], out |-> handleErrorResponse(err)]

\* The catchError callback of the envelope operations.
registerCatch(s, err) == [s |-> s, out |-> handleErrorResponse(err)]

\* The callbacks of an operation of the cookie AuthService.
sessionOpMap(op, s, body) ==
  CASE op = "login" -> loginMap(s, body)
    [] op = "validateSession" -> validateSessionMap(s)
    [] OTHER -> registerMap(s, body)

sessionOpCatch(op, s, err) ==
  CASE op = "login" -> loginCatch(s, err)
    [] op = "validateSession" -> validateSessionCatch(s, err)
    [] OTHER -> registerCatch(s, err)

(***************************************************************************)
(* The two BehaviorSubjects emission by emission                           *)
(***************************************************************************)
MaxEmit == 4

MaxCall == 1

\* this.isAuthenticatedSubject.next(b) and this.currentUserSubject.next(u)
AuthNext(b) == [subj |-> "isAuthenticated$", bool |-> b, user |-> Null]

UserNext(u) == [subj |-> "currentUser$", bool |-> FALSE, user |-> u]

\* next() stores the value in the subject ...
ApplyNext(s, c) ==
  IF c.subj = "isAuthenticated$" THEN [s EXCEPT !.auth = c.bool]
  ELSE [s EXCEPT !.user = c.user]

RECURSIVE ApplyCalls(_, _)
ApplyCalls(s, calls) ==
  IF calls = <<>> THEN s ELSE ApplyCalls(ApplyNext(s, Head(calls)), Tail(calls))

\* ... and calls every observer before it returns: what an observer reading
\* both subjects finds at each of the emissions of a step.
Seen(s, calls) == [i \in 1..Len(calls) |-> ApplyCalls(s, SubSeq(calls, 1, i))]

\* The next() calls of each state transition, in program order.
logoutCalls == <<UserNext(Null), AuthNext(FALSE)>>

loginMapCalls(body) ==
  IF handleSuccessResponse(body).kind = "throw" THEN <<>>
  ELSE <<AuthNext(TRUE)>> \o (IF body \in Users THEN <<UserNext(body)>> ELSE <<>>)

validateSessionMapCalls == <<AuthNext(TRUE)>>

validateSessionCatchCalls == <<AuthNext(FALSE), UserNext(Null)>>

sessionOpMapCalls(op, body) ==
  CASE op = "login" -> loginMapCalls(body)
    [] op = "validateSession" -> validateSessionMapCalls
    [] OTHER -> <<>>

sessionOpCatchCalls(op) ==
  CASE op = "validateSession" -> validateSessionCatchCalls
    [] OTHER -> <<>>

\* A subscriber of both streams and what it has received on each.
NoObserver == [on |-> FALSE, auth |-> <<>>, user |-> <<>>]

NoEmissions == [auth |-> <<>>, user |-> <<>>]

\* Subscribing to a BehaviorSubject replays its current value.
subscribe(s) == [on |-> TRUE, auth |-> <<s.auth>>, user |-> <<s.user>>]

\* A faulty deliverOne: a value equal to the last one received is skipped.
deliverOneDistinct(obs, c) ==
  IF ~obs.on THEN obs
  ELSE IF c.subj = "isAuthenticated$"
       THEN IF obs.auth[Len(obs.auth)] = c.bool THEN obs
            ELSE [obs EXCEPT !.auth = Append(@, c.bool)]
       ELSE IF obs.user[Len(obs.user)] = c.user THEN obs
            ELSE [obs EXCEPT !.user = Append(@, c.user)]

\* One next(): the subscriber's callback of that stream runs with the value.
deliverOne(obs, c) ==
  IF ~obs.on THEN obs
  ELSE IF c.subj = "isAuthenticated$" THEN [obs EXCEPT !.auth = Append(@, c.bool)]
       ELSE [obs EXCEPT !.user = Append(@, c.user)]

RECURSIVE deliver(_, _)
deliver(obs, calls) ==
  IF calls = <<>> THEN obs ELSE deliver(deliverOne(obs, Head(calls)), Tail(calls))

\* The values of a stream among the next() calls of a step.
RECURSIVE Flat(_)
Flat(seqs) == IF seqs = <<>> THEN <<>> ELSE Head(seqs) \o Flat(Tail(seqs))

AuthValues(calls) ==
  LET sel == SelectSeq(calls, LAMBDA c : c.subj = "isAuthenticated$")
  IN  [i \in 1..Len(sel) |-> sel[i].bool]

UserValues(calls) ==
  LET sel == SelectSeq(calls, LAMBDA c : c.subj = "currentUser$")
  IN  [i \in 1..Len(sel) |-> sel[i].user]

(***************************************************************************)
(* handleErrorResponse in detail: the error payload and the envelope       *)
(***************************************************************************)
MaxLen == 2

Strings == {"", "a", "b", "c"}

SeqsUpTo(S, n) == UNION {[1..k -> S] : k \in 0..n}

\* The value of one field of a structured payload: an array of strings, a
\* string, or anything else (a number, a nested object, null).
ArrayValue(xs) == [t |-> "array", v |-> xs]

StringValue(x) == [t |-> "string", v |-> <<x>>]

OtherValue == [t |-> "other", v |-> <<>>]

FieldValues ==
  {ArrayValue(xs) : xs \in SeqsUpTo(Strings, MaxLen)}
    \cup {StringValue(x) : x \in Strings} \cup {OtherValue}

\* error.error: absent (undefined or null), a string, an object given by its
\* field values in key order, or a truthy value of another type.
NoPayload == [t |-> "none", s |-> "", fields |-> <<>>]

StringPayload(x) == [t |-> "string", s |-> x, fields |-> <<>>]

ObjectPayload(fs) == [t |-> "object", s |-> "", fields |-> fs]

OtherPayload == [t |-> "other", s |-> "", fields |-> <<>>]

Payloads ==
  {NoPayload, OtherPayload} \cup {StringPayload(x) : x \in Strings}
    \cup {ObjectPayload(fs) : fs \in SeqsUpTo(FieldValues, MaxLen)}

\* The errors handleErrorResponse is called with: an HttpErrorResponse with
\* any payload, the Error of the interceptor and the TypeError of a map
\* callback, which have no `error` property.
ErrorWith(kind, p) == [kind |-> kind, error |-> p]

ErrorInputs ==
  {ErrorWith("HttpErrorResponse", p) : p \in Payloads}
    \cup {ErrorWith("Error", NoPayload), ErrorWith("TypeError", NoPayload)}

NotCalled == ErrorWith("none", NoPayload)

NotThrown == [success |-> TRUE, errors |-> <<>>, message |-> ""]

Fallback == "An error occurred"

Delimiter == ". "

\* if (error.error): undefined, null and the empty string are falsy.
Truthy(p) == ~(p.t = "none" \/ (p.t = "string" /\ p.s = ""))

\* A faulty push: an array contributes its first element only.
pushFirstOnly(acc, fieldErrors) ==
  CASE fieldErrors.t = "array" ->
         IF fieldErrors.v = <<>> THEN acc ELSE Append(acc, fieldErrors.v[1])
    [] fieldErrors.t = "string" -> Append(acc, fieldErrors.v[1])
    [] OTHER -> acc

\* The body of the forEach: push(...fieldErrors) for an array,
\* push(fieldErrors) for a string, nothing for any other value.
push(acc, fieldErrors) ==
  CASE fieldErrors.t = "array" -> acc \o fieldErrors.v
    [] fieldErrors.t = "string" -> Append(acc, fieldErrors.v[1])
    [] OTHER -> acc

\* Object.keys(error.error).forEach(...) with errorMessages as accumulator.
RECURSIVE forEachKey(_, _)
forEachKey(acc, fields) ==
  IF fields = <<>> THEN acc ELSE forEachKey(push(acc, Head(fields)), Tail(fields))

\* Array.prototype.join
RECURSIVE join(_, _)
join(xs, sep) ==
  IF xs = <<>> THEN ""
  ELSE IF Len(xs) = 1 THEN xs[1]
  ELSE xs[1] \o sep \o join(Tail(xs), sep)

errorMessages(p) ==
  IF ~Truthy(p) THEN <<>>
  ELSE CASE p.t = "object" -> forEachKey(<<>>, p.fields)
         [] p.t = "string" -> <<p.s>>
         [] OTHER -> <<>>

\* A faulty errorMessage: the list is joined even when it is empty.
errorMessageAlwaysJoined(p) ==
  IF Truthy(p) THEN join(errorMessages(p), Delimiter) ELSE Fallback

errorMessage(p) ==
  IF Truthy(p) /\ Len(errorMessages(p)) > 0
  THEN join(errorMessages(p), Delimiter)
  ELSE Fallback

\* const apiError: ApiResponse = {success: false, errors, message}
apiError(err) ==
  [success |-> FALSE, errors |-> errorMessages(err.error),
   message |-> errorMessage(err.error)]

(***************************************************************************)
(* The form of the Register component                                      *)
(***************************************************************************)
\* Validators.minLength(8) of the password control.
MinLength == 8

\* The addresses typed into the email control: nothing, a string that is no
\* address, an address.
Emails == {"", "invalid-email", "test@example.com"}

\* The passwords typed: nothing, one character short of the least length,
\* and two of that length.
Passwords == {"", "passwor", "password", "drowssap"}

\* Validators.required on a string
required(value) == value # ""

\* Validators.email: an empty value passes, required is what rejects it.
email(value) == value = "" \/ value = "test@example.com"

\* A faulty minLength: a password one character short passes.
minLengthOneLess(n, value) == Len(value) = 0 \/ Len(value) >= n - 1

\* Validators.minLength(n): an empty value passes, required is what rejects it.
minLength(n, value) == Len(value) = 0 \/ Len(value) >= n

\* Validators.requiredTrue
requiredTrue(value) == value = TRUE

\* passwordsMatchValidator: the errors it puts on the form group.
passwordsMatchValidator(form) ==
  IF form.password = form.confirmPassword THEN {} ELSE {"passwordMismatch"}

\* registerForm.valid: every control passes its validators and the group has
\* no error.
formValid(form) ==
  /\ required(form.email) /\ email(form.email)
  /\ required(form.password) /\ minLength(MinLength, form.password)
  /\ required(form.confirmPassword)
  /\ requiredTrue(form.privacyPolicy)
  /\ passwordsMatchValidator(form) = {}

\* A FormGroup: the values of its controls, its errors and its validity.
FormGroup(value) ==
  [value |-> value, errors |-> passwordsMatchValidator(value),
   valid |-> formValid(value)]

(***************************************************************************)
(* The components at construction                                          *)
(***************************************************************************)
\* No login or validateSession call issued, none answered, no logout.
NoRace == [issued |-> <<>>, ops |-> <<>>, arrived |-> <<>>]

\* AuthGuard is not waiting for a validateSession call.
IdleGuard == [pending |-> FALSE, slot |-> 0]

\* A created_at field: whether the video has one, whether new Date() can read
\* it, and the time in milliseconds it stands for.
NoDate == [given |-> FALSE, parses |-> FALSE, time |-> 0]

\* The null that currentVideoSubject starts with.
NoVideo == [id |-> 0, category |-> Null, created_at |-> NoDate]

\* videosSubject, latestVideosSubject, currentVideoSubject of VideoService.
NewVideoService ==
  [videosSubject |-> <<>>, latestVideosSubject |-> <<>>,
   currentVideoSubject |-> NoVideo]

\* The values of the controls as initializeForm sets them.
EmptyForm ==
  [email |-> "", password |-> "", confirmPassword |-> "",
   privacyPolicy |-> FALSE]

\* The Register component after initializeForm: the form, whether its fields
\* have been marked as touched, isSubmitting, errorMessage, the number of
\* register calls not answered yet, and the calls of authService.register
\* and of router.navigate so far.
NewRegister ==
  [registerForm |-> FormGroup(EmptyForm), touched |-> FALSE,
   isSubmitting |-> FALSE, errorMessage |-> "", pending |-> 0,
   calls |-> <<>>, navigated |-> <<>>]

\* The VideoList page as its field initialisers leave it: isLoading,
\* errorMessage, categories, currentUser; then the lifecycle ("new", "init"
\* after ngOnInit, "destroyed" after ngOnDestroy), the loads subscribed to
\* and not answered, the number of loads so far, the timers of
\* handleUnauthorizedError not fired yet (each with the number of logins at
\* the time it was set) and the number of logins so far.
NewVideoList ==
  [isLoading |-> FALSE, errorMessage |-> "", categories |-> <<>>,
   currentUser |-> Null, stage |-> "new", pending |-> {}, issued |-> 0,
   timers |-> <<>>, logins |-> 0]

\* A VideoPlayer as its field initialisers leave it: no video (0), the
\* resolution, hls (0 for none, else the number of the instance), the
\* instances created and not destroyed, the number created, and the
\* lifecycle: "new", "init" after ngOnInit, "view" after ngAfterViewInit,
\* "destroyed" after ngOnDestroy.
NewPlayer ==
  [video |-> 0, currentResolution |-> "720p", hls |-> 0, undestroyed |-> {},
   created |-> 0, isLoading |-> FALSE, hasError |-> FALSE, stage |-> "new",
   canHls |-> TRUE, canNative |-> FALSE]

\* NotificationService after construction: notificationSubject holds null
\* (0; else the number of the show() call whose notification it holds), no
\* timer runs, the clock stands at 0, nothing was shown.
NoNotification == [current |-> 0, timers |-> {}, now |-> 0, shown |-> 0]

\* The Login component after its constructor: the form, whether its fields
\* were marked as touched, isSubmitting, loginError, the login calls not
\* answered yet, the calls of authService.login and of router.navigate.
NewLogin ==
  [loginForm |-> [email |-> "", password |-> ""], touched |-> FALSE,
   isSubmitting |-> FALSE, loginError |-> "", pending |-> 0, calls |-> <<>>,
   navigated |-> <<>>]

\* The Activate component as its field initialisers leave it, with the
\* number of query-parameter emissions seen, the calls of
\* authService.activateAccount, those not answered yet, and the redirect
\* timers not fired yet.
NewActivate ==
  [isActivating |-> TRUE, activationSuccess |-> FALSE,
   activationError |-> FALSE, errorMessage |-> "", uid |-> "", token |-> "",
   emissions |-> 0, calls |-> <<>>, pending |-> 0, timers |-> 0]

(***************************************************************************)
(* State                                                                   *)
(***************************************************************************)
IdleReq == [st |-> "idle", op |-> "none", hdr |-> Null, nest |-> 0]

\* The operations called in each deployment. With the posting refreshToken()
\* the model follows one plain request (the interceptor treats every request
\* alike); login and validateSession are followed in the other two.
OpsOf(d) == IF d = "tokenHttp" THEN {"getCSRFToken"} ELSE Ops

Waiters(rq) == {x \in DOMAIN rq : rq[x].st \in {"waiting", "refreshWaiting"}}

\* The refresh calls that have been sent and not yet answered.
OutstandingRefreshes == {x \in Req : reqs[x].st \in {"refreshing", "refreshRetry"}}

\* The history record of a step: which request slot acted, on which operation,
\* with which response, the session before it, the session the interceptor left,
\* whether router.navigate(['/auth/login']) was called, the error the interceptor
\* emitted, what the operation delivered, and which waiting slots were released.
Step(act, r, op, status, body) ==
  [act |-> act, r |-> r, op |-> op, status |-> status, body |-> body,
   pre |-> Session, isess |-> Session,
   nav |-> FALSE, ierr |-> NoError, out |-> Nothing, rel |-> {}]

SetSession(s) ==
  /\ isAuthenticatedSubject' = s.auth
  /\ currentUserSubject' = s.user
  /\ localStorage' = s.store

\* The cookie deployment writes nothing to localStorage; in the token
\* deployment it is empty or holds the tokens an earlier visit left behind.
\* The subjects start at null and false, and the constructor of the token
\* variant runs checkAuthStatus.
Init ==
  /\ deploy \in {"cookie", "tokenStub", "tokenHttp"}
  /\ localStorage \in
       IF deploy = "cookie" THEN {EmptyStore}
       ELSE {EmptyStore, [k \in Keys |-> IF k = "access_token" THEN "t1" ELSE "rt"]}
  /\ isAuthenticatedSubject =
       IF deploy = "cookie" THEN FALSE ELSE checkAuthStatus(localStorage)
  /\ currentUserSubject = Null
  /\ isRefreshing = FALSE
  /\ refreshTokenSubject = Null
  /\ reqs = [r \in Req |-> IdleReq]
  /\ url = StartUrl
  /\ last = Step("Init", 0, "none", -1, Null)
  /\ observer = NoObserver
  /\ emitted = NoEmissions
  /\ errorIn = NotCalled
  /\ thrown = NotThrown
  /\ race = NoRace
  /\ videoList = NewVideoList
  /\ player = NewPlayer
  /\ notification = NoNotification
  /\ login = NewLogin
  /\ activate = NewActivate
  /\ guard = IdleGuard
  /\ videoService = NewVideoService
  /\ register = NewRegister

(***************************************************************************)
(* Actions                                                                 *)
(***************************************************************************)
\* A component calls login / validateSession / getCSRFToken: the request leaves
\* with its credentials, nothing else changes until the response.
Issue(r, op) ==
  /\ reqs[r].st = "idle"
  /\ op \in OpsOf(deploy)
  /\ reqs' = [reqs EXCEPT ![r] = [st |-> "sent", op |-> op,
                                  hdr |-> attach(Session), nest |-> 0]]
  /\ last' = Step("Issue", r, op, -1, Null)
  /\ UNCHANGED <<deploy, isAuthenticatedSubject, currentUserSubject, localStorage,
                 isRefreshing, refreshTokenSubject, url>>
  /\ UNCHANGED <<obsVars, errVars, compVars>>

\* A 2xx response arrives, to a request or to its retry.
Respond2xx(r, body) ==
  /\ reqs[r].st \in {"sent", "retry", "retryWaiter"}
  /\ body \in (IF reqs[r].op = "login" THEN LoginBodies ELSE {NoUserBody})
  /\ LET res == onSuccess(reqs[r].op, Session, body)
     IN  /\ SetSession(res.s)
         /\ last' = [Step("Response", r, reqs[r].op, 200, body) EXCEPT !.out = res.out]
  /\ reqs' = [reqs EXCEPT ![r] = IdleReq]
  /\ UNCHANGED <<deploy, isRefreshing, refreshTokenSubject, url>>
  /\ UNCHANGED <<obsVars, errVars, compVars>>

\* Cookie interceptor: an error response arrives; the interceptor's catchError
\* runs, then the operation's.
RespondError(r, status) ==
  /\ deploy = "cookie"
  /\ reqs[r].st = "sent"
  /\ LET i == authInterceptorCookie(Session, HttpErrorResponse(status))
         res == onError(reqs[r].op, i.s, i.err)
     IN  /\ SetSession(res.s)
         /\ url' = IF i.nav THEN LoginUrl ELSE url
         /\ last' = [Step("Response", r, reqs[r].op, status, Null) EXCEPT
                       !.isess = i.s, !.nav = i.nav, !.ierr = i.err, !.out = res.out]
  /\ reqs' = [reqs EXCEPT ![r] = IdleReq]
  /\ UNCHANGED <<deploy, isRefreshing, refreshTokenSubject>>
  /\ UNCHANGED <<obsVars, errVars, compVars>>

\* A component calls authService.logout().
Logout ==
  /\ SetSession(logout(Session))
  /\ last' = Step("Logout", 0, "logout", -1, Null)
  /\ UNCHANGED <<deploy, isRefreshing, refreshTokenSubject, reqs, url>>
  /\ UNCHANGED <<obsVars, errVars, compVars>>

\* Token interceptor: an error other than 401 to a first attempt is passed on.
RespondOtherT(r, status) ==
  /\ deploy # "cookie"
  /\ reqs[r].st = "sent"
  /\ authInterceptorToken(HttpErrorResponse(status)) = "throwError"
  /\ LET err == HttpErrorResponse(status)
         res == onError(reqs[r].op, Session, err)
     IN  /\ SetSession(res.s)
         /\ last' = [Step("Response", r, reqs[r].op, status, Null) EXCEPT
                       !.ierr = err, !.out = res.out]
  /\ reqs' = [reqs EXCEPT ![r] = IdleReq]
  /\ UNCHANGED <<deploy, isRefreshing, refreshTokenSubject, url>>
  /\ UNCHANGED <<obsVars, errVars, compVars>>

\* 401 to a first attempt with no refresh in progress, refreshToken() being the
\* one of notification.service.ts: it fails at once, inside the same turn, and
\* issues no request.
Respond401Stub(r) ==
  /\ deploy = "tokenStub"
  /\ reqs[r].st = "sent"
  /\ handle401ErrorBranch(isRefreshing) = "refresh"
  /\ LET c == handle401ErrorCatch(Session, NotSupported)
         res == onError(reqs[r].op, c.s, c.err)
     IN  /\ SetSession(res.s)
         /\ last' = [Step("Response", r, reqs[r].op, 401, Null) EXCEPT
                       !.isess = c.s, !.nav = c.nav, !.ierr = c.err, !.out = res.out]
  /\ isRefreshing' = FALSE
  /\ refreshTokenSubject' = Null
  /\ url' = LoginUrl
  /\ reqs' = [reqs EXCEPT ![r] = IdleReq]
  /\ UNCHANGED deploy
  /\ UNCHANGED <<obsVars, errVars, compVars>>

\* 401 with no refresh in progress, refreshToken() posting to token/refresh/:
\* the flag is raised, the subject reset, and the refresh call leaves. The same
\* branch serves a refresh call that is itself answered 401 (the interceptor
\* sees every request), which then starts a nested refresh.
Respond401Start(r) ==
  /\ deploy = "tokenHttp"
  /\ reqs[r].st \in {"sent", "refreshing"}
  /\ handle401ErrorBranch(isRefreshing) = "refresh"
  /\ reqs[r].st = "refreshing" => reqs[r].nest < MaxNest
  /\ isRefreshing' = TRUE
  /\ refreshTokenSubject' = Null
  /\ reqs' = [reqs EXCEPT ![r] =
                [@ EXCEPT !.st = "refreshing",
                          !.nest = IF reqs[r].st = "refreshing" THEN @ + 1 ELSE 0]]
  /\ last' = Step(IF reqs[r].st = "sent" THEN "Response" ELSE "RefreshResponse",
                  r, reqs[r].op, 401, Null)
  /\ UNCHANGED <<deploy, isAuthenticatedSubject, currentUserSubject, localStorage, url>>
  /\ UNCHANGED <<obsVars, errVars, compVars>>

\* 401 while a refresh is in progress: the request subscribes to
\* refreshTokenSubject behind filter(token != null), take(1). A BehaviorSubject
\* replays its value, so a non-null value would release it at once.
Respond401Wait(r) ==
  /\ deploy = "tokenHttp"
  /\ reqs[r].st \in {"sent", "refreshing"}
  /\ handle401ErrorBranch(isRefreshing) = "wait"
  /\ LET waiting == IF reqs[r].st = "sent" THEN "waiting" ELSE "refreshWaiting"
         parked == [reqs EXCEPT ![r] = [@ EXCEPT !.st = waiting]]
     IN  reqs' = releaseWaiters(parked, refreshTokenSubject, Session)
  /\ last' = Step(IF reqs[r].st = "sent" THEN "Response" ELSE "RefreshResponse",
                  r, reqs[r].op, 401, Null)
  /\ UNCHANGED <<deploy, isAuthenticatedSubject, currentUserSubject, localStorage,
                 isRefreshing, refreshTokenSubject, url>>
  /\ UNCHANGED <<obsVars, errVars, compVars>>

\* The refresh call is answered 2xx with a new access token: the token is
\* stored, the flag lowered, the subject emits the token (releasing the
\* waiters), and the request that started the refresh is sent again.
RefreshOk(r, t) ==
  /\ reqs[r].st \in {"refreshing", "refreshRetry"}
  /\ LET s == refreshTokenStored(Session, t)
         again == [reqs EXCEPT ![r] =
                     IF @.nest = 0
                     THEN [@ EXCEPT !.st = "retry", !.hdr = addToken(@, s)]
                     ELSE [@ EXCEPT !.st = "refreshRetry", !.nest = @ - 1,
                                    !.hdr = addToken(@, s)]]
     IN  /\ SetSession(s)
         /\ reqs' = releaseWaiters(again, t, s)
         /\ last' = [Step("RefreshResponse", r, reqs[r].op, 200, t) EXCEPT
                       !.isess = s, !.rel = Waiters(reqs)]
  /\ isRefreshing' = FALSE
  /\ refreshTokenSubject' = t
  /\ UNCHANGED <<deploy, url>>
  /\ UNCHANGED <<obsVars, errVars, compVars>>

\* The refresh call fails with an error that reaches handle401Error's
\* catchError: any error but a 401 on its first attempt, and every error on a
\* re-sent refresh (a re-sent request bypasses authInterceptor's catchError).
RefreshFail(r, status) ==
  /\ reqs[r].st \in {"refreshing", "refreshRetry"}
  /\ reqs[r].st = "refreshing" => status # 401
  /\ LET c == handle401ErrorCatch(Session, HttpErrorResponse(status))
         res == onError(reqs[r].op, c.s, c.err)
     IN  /\ SetSession(res.s)
         /\ last' = [Step("RefreshResponse", r, reqs[r].op, status, Null) EXCEPT
                       !.isess = c.s, !.nav = c.nav, !.ierr = c.err, !.out = res.out]
  /\ isRefreshing' = FALSE
  /\ url' = LoginUrl
  /\ reqs' = [reqs EXCEPT ![r] = IdleReq]
  /\ UNCHANGED <<deploy, refreshTokenSubject>>
  /\ UNCHANGED <<obsVars, errVars, compVars>>

\* The retry of the request that started the refresh fails: the error passes
\* through the catchError that follows the switchMap.
RetryFail(r, status) ==
  /\ reqs[r].st = "retry"
  /\ LET c == handle401ErrorCatch(Session, HttpErrorResponse(status))
         res == onError(reqs[r].op, c.s, c.err)
     IN  /\ SetSession(res.s)
         /\ last' = [Step("RetryResponse", r, reqs[r].op, status, Null) EXCEPT
                       !.isess = c.s, !.nav = c.nav, !.ierr = c.err, !.out = res.out]
  /\ isRefreshing' = FALSE
  /\ url' = LoginUrl
  /\ reqs' = [reqs EXCEPT ![r] = IdleReq]
  /\ UNCHANGED <<deploy, refreshTokenSubject>>
  /\ UNCHANGED <<obsVars, errVars, compVars>>

\* The retry of a request that waited fails: nothing catches it before the
\* operation does.
RetryWaiterFail(r, status) ==
  /\ reqs[r].st = "retryWaiter"
  /\ LET err == HttpErrorResponse(status)
         res == onError(reqs[r].op, Session, err)
     IN  /\ SetSession(res.s)
         /\ last' = [Step("RetryResponse", r, reqs[r].op, status, Null) EXCEPT
                       !.ierr = err, !.out = res.out]
  /\ reqs' = [reqs EXCEPT ![r] = IdleReq]
  /\ UNCHANGED <<deploy, isRefreshing, refreshTokenSubject, url>>
  /\ UNCHANGED <<obsVars, errVars, compVars>>

Next ==
  \/ \E r \in Req, op \in Ops : Issue(r, op)
  \/ \E r \in Req, body \in LoginBodies : Respond2xx(r, body)
  \/ \E r \in Req, status \in ErrorStatus : RespondError(r, status)
  \/ Logout
  \/ \E r \in Req, status \in ErrorStatus : RespondOtherT(r, status)
  \/ \E r \in Req : Respond401Stub(r)
  \/ \E r \in Req : Respond401Start(r)
  \/ \E r \in Req : Respond401Wait(r)
  \/ \E r \in Req, t \in Tokens : RefreshOk(r, t)
  \/ \E r \in Req, status \in ErrorStatus : RefreshFail(r, status)
  \/ \E r \in Req, status \in ErrorStatus : RetryFail(r, status)
  \/ \E r \in Req, status \in ErrorStatus : RetryWaiterFail(r, status)

Spec == Init /\ [][Next]_vars

(***************************************************************************)
(* The Session Manager of auth.service.ts behind the cookie interceptor,   *)
(* emission by emission, with one subscriber of its two streams            *)
(***************************************************************************)
CallSlot == 1..MaxCall

\* The history record of a step of this specification: as Step, with the
\* state transitions of the step (each the sequence of its next() calls, in
\* program order) and what an observer finds at each emission.
SessionStep(act, r, op, status, body) ==
  [act |-> act, r |-> r, op |-> op, status |-> status, body |-> body,
   pre |-> Session, isess |-> Session,
   nav |-> FALSE, ierr |-> NoError, out |-> Nothing, trans |-> <<>>, seen |-> <<>>]

SessionInit ==
  /\ deploy = "cookie"
  /\ localStorage = EmptyStore
  /\ isAuthenticatedSubject = FALSE
  /\ currentUserSubject = Null
  /\ isRefreshing = FALSE
  /\ refreshTokenSubject = Null
  /\ reqs = [r \in Req |-> IdleReq]
  /\ url = StartUrl
  /\ last = SessionStep("Init", 0, "none", -1, Null)
  /\ observer = NoObserver
  /\ emitted = NoEmissions
  /\ errorIn = NotCalled
  /\ thrown = NotThrown
  /\ race = NoRace
  /\ videoList = NewVideoList
  /\ player = NewPlayer
  /\ notification = NoNotification
  /\ login = NewLogin
  /\ activate = NewActivate
  /\ guard = IdleGuard
  /\ videoService = NewVideoService
  /\ register = NewRegister

\* The subscriber's log is followed up to MaxEmit values per stream; a step
\* emits at most two on each.
CanEmit ==
  \/ ~observer.on
  \/ /\ Len(emitted.auth) + 2 <= MaxEmit
     /\ Len(emitted.user) + 2 <= MaxEmit

\* The next() calls of the step's transitions reach the subscriber.
Emit(trans) ==
  LET calls == Flat(trans)
  IN  /\ observer' = deliver(observer, calls)
      /\ emitted' =
           IF observer.on
           THEN [auth |-> emitted.auth \o AuthValues(calls),
                 user |-> emitted.user \o UserValues(calls)]
           ELSE emitted

Subscribe ==
  /\ ~observer.on
  /\ observer' = subscribe(Session)
  /\ emitted' = NoEmissions
  /\ last' = SessionStep("Subscribe", 0, "none", -1, Null)
  /\ UNCHANGED <<deploy, isAuthenticatedSubject, currentUserSubject, localStorage,
                 isRefreshing, refreshTokenSubject, reqs, url, errVars,
                 compVars>>

Unsubscribe ==
  /\ observer.on
  /\ observer' = NoObserver
  /\ emitted' = NoEmissions
  /\ last' = SessionStep("Unsubscribe", 0, "none", -1, Null)
  /\ UNCHANGED <<deploy, isAuthenticatedSubject, currentUserSubject, localStorage,
                 isRefreshing, refreshTokenSubject, reqs, url, errVars,
                 compVars>>

\* A component calls one of the network operations: the request leaves.
Call(r, op) ==
  /\ reqs[r].st = "idle"
  /\ reqs' = [reqs EXCEPT ![r] = [st |-> "sent", op |-> op, hdr |-> Null, nest |-> 0]]
  /\ last' = SessionStep("Call", r, op, -1, Null)
  /\ UNCHANGED <<deploy, isAuthenticatedSubject, currentUserSubject, localStorage,
                 isRefreshing, refreshTokenSubject, url, obsVars, errVars, compVars>>

\* The bodies a 2xx response to an operation is followed with.
BodiesOf(op) ==
  CASE op = "login" -> LoginBodies
    [] op = "validateSession" -> {NoUserBody}
    [] OTHER -> {NullBody, NoUserBody}

\* A 2xx response: the map callback of the operation runs.
Answer2xx(r, body) ==
  /\ reqs[r].st = "sent"
  /\ body \in BodiesOf(reqs[r].op)
  /\ CanEmit
  /\ LET op == reqs[r].op
         res == sessionOpMap(op, Session, body)
         trans == <<sessionOpMapCalls(op, body)>>
     IN  /\ SetSession(res.s)
         /\ Emit(trans)
         /\ last' = [SessionStep("Response", r, op, 200, body) EXCEPT
                       !.out = res.out, !.trans = trans,
                       !.seen = Seen(Session, Flat(trans))]
  /\ reqs' = [reqs EXCEPT ![r] = IdleReq]
  /\ UNCHANGED <<deploy, isRefreshing, refreshTokenSubject, url, errVars, compVars>>

\* An error response: the interceptor's catchError runs (logout and redirect
\* on 401), then the catchError of the operation.
AnswerError(r, status) ==
  /\ reqs[r].st = "sent"
  /\ CanEmit
  /\ LET op == reqs[r].op
         i == authInterceptorCookie(Session, HttpErrorResponse(status))
         res == sessionOpCatch(op, i.s, i.err)
         trans == (IF i.nav THEN <<logoutCalls>> ELSE <<>>)
                    \o <<sessionOpCatchCalls(op)>>
     IN  /\ SetSession(res.s)
         /\ Emit(trans)
         /\ url' = IF i.nav THEN LoginUrl ELSE url
         /\ last' = [SessionStep("Response", r, op, status, Null) EXCEPT
                       !.isess = i.s, !.nav = i.nav, !.ierr = i.err,
                       !.out = res.out, !.trans = trans,
                       !.seen = Seen(Session, Flat(trans))]
  /\ reqs' = [reqs EXCEPT ![r] = IdleReq]
  /\ UNCHANGED <<deploy, isRefreshing, refreshTokenSubject, errVars, compVars>>

\* A component calls authService.logout().
CallLogout ==
  /\ CanEmit
  /\ LET trans == <<logoutCalls>>
     IN  /\ SetSession(logout(Session))
         /\ Emit(trans)
         /\ last' = [SessionStep("Logout", 0, "logout", -1, Null) EXCEPT
                       !.trans = trans, !.seen = Seen(Session, Flat(trans))]
  /\ UNCHANGED <<deploy, isRefreshing, refreshTokenSubject, reqs, url, errVars,
                 compVars>>

SessionNext ==
  \/ Subscribe
  \/ Unsubscribe
  \/ \E r \in CallSlot, op \in SessionOps : Call(r, op)
  \/ \E r \in CallSlot, body \in LoginBodies : Answer2xx(r, body)
  \/ \E r \in CallSlot, status \in ErrorStatus : AnswerError(r, status)
  \/ CallLogout

SessionSpec == SessionInit /\ [][SessionNext]_vars

\* Every step leaves the subjects at the values its next() calls carried.
EmissionsAgree ==
  LET s == ApplyCalls(last.pre, Flat(last.trans))
  IN  last.act \in {"Response", "Logout"} =>
        isAuthenticatedSubject = s.auth /\ currentUserSubject = s.user

(***************************************************************************)
(* handleErrorResponse applied to each error of the bounded set            *)
(***************************************************************************)
ErrInit ==
  /\ deploy = "cookie"
  /\ localStorage = EmptyStore
  /\ isAuthenticatedSubject = FALSE
  /\ currentUserSubject = Null
  /\ isRefreshing = FALSE
  /\ refreshTokenSubject = Null
  /\ reqs = [r \in Req |-> IdleReq]
  /\ url = StartUrl
  /\ last = Step("Init", 0, "none", -1, Null)
  /\ observer = NoObserver
  /\ emitted = NoEmissions
  /\ errorIn \in ErrorInputs
  /\ thrown = NotThrown
  /\ race = NoRace
  /\ videoList = NewVideoList
  /\ player = NewPlayer
  /\ notification = NoNotification
  /\ login = NewLogin
  /\ activate = NewActivate
  /\ guard = IdleGuard
  /\ videoService = NewVideoService
  /\ register = NewRegister

\* catchError((error) => this.handleErrorResponse(error))
HandleErrorResponse ==
  /\ thrown = NotThrown
  /\ race = NoRace
  /\ videoList = NewVideoList
  /\ player = NewPlayer
  /\ notification = NoNotification
  /\ login = NewLogin
  /\ activate = NewActivate
  /\ guard = IdleGuard
  /\ videoService = NewVideoService
  /\ register = NewRegister
  /\ thrown' = apiError(errorIn)
  /\ UNCHANGED <<deploy, isAuthenticatedSubject, currentUserSubject, localStorage,
                 isRefreshing, refreshTokenSubject, reqs, url, last, obsVars, errorIn,
                 compVars>>

ErrNext == HandleErrorResponse

ErrSpec == ErrInit /\ [][ErrNext]_vars

(***************************************************************************)
(* Properties                                                              *)
(***************************************************************************)
\* The user a login response body carries, null when it carries none.
BodyUser(body) == IF body \in Users THEN body ELSE Null

LoginAnswered2xx == last.act = "Response" /\ last.op = "login" /\ last.status = 200

\* C1: after every login call answered 2xx, isAuthenticated() is true and
\* getCurrentUser() is the user of the response body, whatever the session was.
C1_LoginSuccessSetsSession ==
  LoginAnswered2xx =>
    /\ isAuthenticated(Session)
    /\ getCurrentUser(Session) = BodyUser(last.body)

LoginFailed ==
  /\ deploy = "cookie"
  /\ last.act = "Response"
  /\ last.op = "login"
  /\ last.status \in ErrorStatus

\* C2: after every login attempt that failed with a non-2xx status (401
\* included, the request passing through the cookie interceptor) the
\* authenticated flag and the current user are what they were before the
\* response.
C2_FailedLoginKeepsSession ==
  LoginFailed =>
    /\ isAuthenticatedSubject = last.pre.auth
    /\ currentUserSubject = last.pre.user

\* C3: logout(), called by a component or by the interceptor, from any session
\* leaves isAuthenticated() false and getCurrentUser() null.
C3_LogoutClearsSession ==
  /\ last.act = "Logout" =>
       ~isAuthenticated(Session) /\ getCurrentUser(Session) = Null
  /\ last.nav =>
       ~isAuthenticated(last.isess) /\ getCurrentUser(last.isess) = Null

\* C3 witness: logout() has run on a session that had a user and a stored token.
C3_Witness ==
  /\ last.act = "Logout"
  /\ last.pre.auth
  /\ last.pre.user # Null
  /\ getToken(last.pre) # Null

ValidateSessionFailed ==
  /\ deploy = "cookie"
  /\ last.act = "Response"
  /\ last.op = "validateSession"
  /\ last.status \in ErrorStatus

\* C4: validateSession() (auth.service.ts) that ends in any error, 401, another
\* status or a network failure, emits false, sets authenticated to false and
\* the current user to null.
C4_ValidateSessionErrorClears ==
  ValidateSessionFailed =>
    /\ last.out = Delivered("boolean", FALSE, NoError)
    /\ isAuthenticatedSubject = FALSE
    /\ currentUserSubject = Null

\* C4 witness: a network failure on validateSession while a user was set.
C4_Witness ==
  /\ ValidateSessionFailed
  /\ last.status = 0
  /\ last.pre.auth
  /\ last.pre.user # Null

RefreshSucceeded == last.act = "RefreshResponse" /\ last.status = 200

RefreshPending ==
  \E x \in Req : reqs[x].st \in {"refreshing", "refreshRetry", "refreshWaiting"}

RefreshAnsweredError == last.act = "RefreshResponse" /\ last.status \in ErrorStatus

CookieAnswered(statuses) ==
  /\ deploy = "cookie"
  /\ last.act = "Response"
  /\ last.status \in statuses

\* C9: in the cookie interceptor a 401 clears the session through logout(),
\* navigates to /auth/login and fails the request; the request is not sent
\* again and no refresh call is made.
C9_Cookie401LogsOut ==
  CookieAnswered({401}) =>
    /\ last.isess.auth = FALSE
    /\ last.isess.user = Null
    /\ isAuthenticatedSubject = FALSE
    /\ currentUserSubject = Null
    /\ last.nav
    /\ url = LoginUrl
    /\ last.ierr = SessionExpired
    /\ last.out.ok = FALSE
    /\ reqs[last.r].st = "idle"
    /\ OutstandingRefreshes = {}

\* C9 witness: a 401 on a plain request while a user was logged in.
C9_Witness ==
  /\ CookieAnswered({401})
  /\ last.op = "getCSRFToken"
  /\ last.pre.auth
  /\ last.pre.user # Null

FirstAttemptFailed ==
  /\ last.act = "Response"
  /\ last.status \in ErrorStatus \ {401}

\* C10: for a response with an error status other than 401 the interceptor
\* hands the same error on, leaves the session as it was and does not navigate.
C10_OtherErrorsPassThrough ==
  FirstAttemptFailed =>
    /\ last.ierr = HttpErrorResponse(last.status)
    /\ last.isess = last.pre
    /\ ~last.nav
    /\ last.op = "getCSRFToken" =>
         last.out = Delivered("error", FALSE, HttpErrorResponse(last.status))
    /\ last.op # "validateSession" => Session = last.pre

\* C10 witness: a 500 in the cookie deployment while a user was logged in.
C10_Witness ==
  /\ FirstAttemptFailed
  /\ deploy = "cookie"
  /\ last.status = 500
  /\ last.pre.auth
  /\ last.pre.user # Null

\* C11: in the cookie variant, in every state an observer of currentUser$ or
\* isAuthenticated$ can see, the states between the emissions of one operation
\* included, the current user is non-null only if the authenticated flag is
\* true.
C11_UserOnlyWhileAuthenticated ==
  /\ currentUserSubject # Null => isAuthenticatedSubject
  /\ \A i \in DOMAIN last.seen : last.seen[i].user # Null => last.seen[i].auth

\* A step that completed a login or a validateSession call successfully.
CompletedSuccessfully ==
  /\ last.act \in {"Response", "RetryResponse"}
  /\ last.op \in {"login", "validateSession"}
  /\ last.status = 200
  /\ last.out.ok

\* C12: the session starts empty (authenticated false, user null), and the
\* authenticated flag is true only if a login or validateSession call completed
\* successfully earlier in the run: it is false at the start and only such a
\* step raises it.
C12_AuthenticatedOnlyAfterSuccess ==
  /\ last.act = "Init" => ~isAuthenticatedSubject /\ currentUserSubject = Null
  /\ (isAuthenticatedSubject /\ ~last.pre.auth) => CompletedSuccessfully

ValidateSessionSucceeded ==
  /\ deploy = "cookie"
  /\ last.act = "Response"
  /\ last.op = "validateSession"
  /\ last.status = 200

\* C13: validateSession() (auth.service.ts) answered 2xx emits true and sets
\* the authenticated flag; the current user and the stored tokens are what
\* they were before the response.
C13_ValidateSessionSuccessConfirms ==
  ValidateSessionSucceeded =>
    /\ last.out = Delivered("boolean", TRUE, NoError)
    /\ isAuthenticatedSubject = TRUE
    /\ currentUserSubject = last.pre.user
    /\ localStorage = last.pre.store

\* C13 witness: validateSession succeeds on an empty session, which becomes
\* authenticated without a user.
C13_Witness ==
  /\ ValidateSessionSucceeded
  /\ ~last.pre.auth
  /\ currentUserSubject = Null

Handled == thrown # NotThrown

Structured(p) == p.t = "object"

\* The list the specification describes for a structured body: field after
\* field in key order, the elements of an array or the single string.
RECURSIVE Flatten(_)
Flatten(fields) ==
  IF fields = <<>> THEN <<>>
  ELSE (IF Head(fields).t \in {"array", "string"} THEN Head(fields).v ELSE <<>>)
         \o Flatten(Tail(fields))

\* The elements of a list with the delimiter between neighbours.
Joined(xs) ==
  LET F[i \in 0..Len(xs)] ==
        IF i = 0 THEN ""
        ELSE IF i = 1 THEN xs[1]
        ELSE F[i - 1] \o ". " \o xs[i]
  IN  F[Len(xs)]

\* C14: for every structured (field-keyed) error body the errors list is the
\* concatenation, in key order, of each field's array elements or single
\* string, and the message is that list joined with the delimiter.
C14_StructuredBodyFlattened ==
  (Handled /\ Structured(errorIn.error)) =>
    /\ thrown.errors = Flatten(errorIn.error.fields)
    /\ thrown.message = Joined(Flatten(errorIn.error.fields))

\* C14, amended: the errors list is that concatenation; the message is the
\* list joined with the delimiter when the list is not empty, and the generic
\* fallback when the body yields no string at all.
C14_StructuredBodyFlattenedOrFallback ==
  (Handled /\ Structured(errorIn.error)) =>
    /\ thrown.errors = Flatten(errorIn.error.fields)
    /\ thrown.message =
         IF Flatten(errorIn.error.fields) # <<>>
         THEN Joined(Flatten(errorIn.error.fields))
         ELSE Fallback

\* C14 witness: the body {field1: ["a", "b"], field2: "c"}.
C14_Witness ==
  /\ Handled
  /\ errorIn.error = ObjectPayload(<<ArrayValue(<<"a", "b">>), StringValue("c")>>)
  /\ thrown.errors = <<"a", "b", "c">>
  /\ thrown.message = "a. b. c"

\* A payload from which no string is taken: absent, of another type, or
\* structured without an array element or a string in any field.
NoStringContent(p) ==
  \/ p.t \in {"none", "other"}
  \/ Structured(p) /\ Flatten(p.fields) = <<>>

\* C15: every envelope of handleErrorResponse is failed; a single string
\* payload is the message; a structured payload populates the errors list; in
\* every other case (no payload, no string content) the message is the generic
\* fallback and the errors list is empty.
C15_EnvelopeByPayload ==
  Handled =>
    /\ thrown.success = FALSE
    /\ errorIn.error.t = "string" => thrown.message = errorIn.error.s
    /\ Structured(errorIn.error) => thrown.errors = Flatten(errorIn.error.fields)
    /\ NoStringContent(errorIn.error) =>
         thrown.message = Fallback /\ thrown.errors = <<>>

\* C15, amended: the string payload is the message when it is not empty; an
\* empty string payload counts as no payload and gets the generic fallback.
C15_EnvelopeByNonEmptyPayload ==
  Handled =>
    /\ thrown.success = FALSE
    /\ (errorIn.error.t = "string" /\ errorIn.error.s # "") =>
         thrown.message = errorIn.error.s /\ thrown.errors = <<errorIn.error.s>>
    /\ Structured(errorIn.error) => thrown.errors = Flatten(errorIn.error.fields)
    /\ (NoStringContent(errorIn.error) \/ errorIn.error = StringPayload("")) =>
         thrown.message = Fallback /\ thrown.errors = <<>>

\* C15 witness: the empty string as payload of an HttpErrorResponse.
C15_Witness ==
  /\ Handled
  /\ errorIn = ErrorWith("HttpErrorResponse", StringPayload(""))
  /\ thrown.message = Fallback

\* A call of register, login, forgotPassword, resetPassword or
\* activateAccount ended in failure: an error status (the interceptor turning
\* a 401 into its own error), or a 2xx response whose body made the map
\* callback throw.
EnvelopeOpFailed ==
  /\ last.act = "Response"
  /\ last.op \in EnvelopeOps \cup {"login"}
  /\ last.status \in ErrorStatus \/ last.body = NullBody

\* C16: every failing call of register, login, forgotPassword, resetPassword
\* and activateAccount, the error of the interceptor's 401 handling included,
\* delivers an ApiResponse with success false and never the raw error.
C16_FailuresDeliverEnvelope ==
  EnvelopeOpFailed =>
    /\ last.out.kind = "ApiResponse"
    /\ last.out.ok = FALSE
    /\ last.out.err = NoError

\* C16 witness: register answered 401, the interceptor raising its error.
C16_Witness ==
  /\ EnvelopeOpFailed
  /\ last.op = "register"
  /\ last.status = 401
  /\ last.ierr = SessionExpired

EnvelopeOpAnswered == last.act = "Response" /\ last.op \in EnvelopeOps

C18_LogoutIsLocal ==
  [][last'.act = "Logout" =>
       /\ localStorage' = EmptyStore
       /\ isAuthenticatedSubject' = FALSE
       /\ currentUserSubject' = Null
       /\ reqs' = reqs
       /\ isRefreshing' = isRefreshing
       /\ refreshTokenSubject' = refreshTokenSubject
       /\ url' = url]_vars

\* C18 witness: logout() on a session with a user and stored tokens while a
\* request is in flight.
C18_Witness ==
  /\ last.act = "Logout"
  /\ last.pre.auth
  /\ last.pre.user # Null
  /\ getToken(last.pre) # Null
  /\ last.pre.store["refresh_token"] # Null
  /\ \E r \in Req : reqs[r].st = "sent"

\* C19: in each AuthService variant isAuthenticated() returns the last value
\* emitted on isAuthenticated$ and getCurrentUser() the last value emitted on
\* currentUser$ (both are reads: operators of the session, without effect).
C19_ReadsReturnLastEmitted ==
  /\ isAuthenticated(Session) = isAuthenticatedSubject
  /\ getCurrentUser(Session) = currentUserSubject

\* The number of next() calls on one stream among the calls of a transition.
Count(calls, subj) == Len(SelectSeq(calls, LAMBDA c : c.subj = subj))

MaxLogin == 2

MaxLogout == 1

Attempt == 1..MaxLogin

\* The attempts whose request has left and whose response has not arrived.
InFlight ==
  {a \in Attempt :
     /\ \E i \in 1..Len(race.issued) : race.issued[i] = a
     /\ ~\E j \in 1..Len(race.arrived) : race.arrived[j].a = a}

\* The place of attempt a in the order of the calls.
IssuedAt(a) == CHOOSE i \in 1..Len(race.issued) : race.issued[i] = a

\* The operation attempt a called.
OpOf(a) == race.ops[IssuedAt(a)]

\* The logout() calls so far.
Logouts == {j \in 1..Len(race.arrived) : race.arrived[j].a = 0}

\* The response to attempt a as the service has processed it: the attempts
\* that were in flight with it, and what login() delivered.
Arrival(a, status, body, out) ==
  [a |-> a, status |-> status, body |-> body, with |-> InFlight \ {a},
   out |-> out]

RaceInit ==
  /\ deploy = "cookie"
  /\ localStorage = EmptyStore
  /\ isAuthenticatedSubject = FALSE
  /\ currentUserSubject = Null
  /\ isRefreshing = FALSE
  /\ refreshTokenSubject = Null
  /\ reqs = [r \in Req |-> IdleReq]
  /\ url = StartUrl
  /\ last = Step("Init", 0, "none", -1, Null)
  /\ observer = NoObserver
  /\ emitted = NoEmissions
  /\ errorIn = NotCalled
  /\ thrown = NotThrown
  /\ race = NoRace
  /\ videoList = NewVideoList
  /\ player = NewPlayer
  /\ notification = NoNotification
  /\ login = NewLogin
  /\ activate = NewActivate
  /\ guard = IdleGuard
  /\ videoService = NewVideoService
  /\ register = NewRegister

\* What no step of this specification changes.
raceFrame == <<deploy, isRefreshing, refreshTokenSubject, reqs, last, obsVars,
               errVars, guard, videoService, register, pageVars>>

\* login(credentials) is called: the request leaves.
LoginIssue(a) ==
  /\ \A i \in 1..Len(race.issued) : race.issued[i] # a
  /\ race' = [race EXCEPT !.issued = Append(@, a), !.ops = Append(@, "login")]
  /\ UNCHANGED <<isAuthenticatedSubject, currentUserSubject, localStorage, url,
                 raceFrame>>

\* The 2xx response to an attempt arrives: the map callback of login runs.
Login2xx(a, body) ==
  /\ a \in InFlight
  /\ OpOf(a) = "login"
  /\ LET res == loginMap(Session, body)
     IN  /\ SetSession(res.s)
         /\ race' = [race EXCEPT
                       !.arrived = Append(@, Arrival(a, 200, body, res.out))]
  /\ UNCHANGED <<url, raceFrame>>

\* The error response to an attempt arrives: the interceptor's catchError,
\* then the catchError of login.
LoginError(a, status) ==
  /\ a \in InFlight
  /\ OpOf(a) = "login"
  /\ LET i == authInterceptorCookie(Session, HttpErrorResponse(status))
         res == loginCatch(i.s, i.err)
     IN  /\ SetSession(res.s)
         /\ url' = IF i.nav THEN LoginUrl ELSE url
         /\ race' = [race EXCEPT
                       !.arrived = Append(@, Arrival(a, status, Null, res.out))]
  /\ UNCHANGED raceFrame

\* validateSession() is called: the request leaves.
ValidateIssue(a) ==
  /\ \A i \in 1..Len(race.issued) : race.issued[i] # a
  /\ race' = [race EXCEPT !.issued = Append(@, a),
                          !.ops = Append(@, "validateSession")]
  /\ UNCHANGED <<isAuthenticatedSubject, currentUserSubject, localStorage, url,
                 raceFrame>>

\* The 2xx response to a validateSession call: its map callback runs.
Validate2xx(a) ==
  /\ a \in InFlight
  /\ OpOf(a) = "validateSession"
  /\ LET res == validateSessionMap(Session)
     IN  /\ SetSession(res.s)
         /\ race' = [race EXCEPT
                       !.arrived = Append(@, Arrival(a, 200, NoUserBody, res.out))]
  /\ UNCHANGED <<url, raceFrame>>

\* The error response to a validateSession call: the interceptor's
\* catchError, then the catchError of validateSession.
ValidateError(a, status) ==
  /\ a \in InFlight
  /\ OpOf(a) = "validateSession"
  /\ LET i == authInterceptorCookie(Session, HttpErrorResponse(status))
         res == validateSessionCatch(i.s, i.err)
     IN  /\ SetSession(res.s)
         /\ url' = IF i.nav THEN LoginUrl ELSE url
         /\ race' = [race EXCEPT
                       !.arrived = Append(@, Arrival(a, status, Null, res.out))]
  /\ UNCHANGED raceFrame

\* A component calls authService.logout() while the attempts in flight stay
\* in flight; the call is recorded among the responses, as attempt 0.
RaceLogout ==
  /\ Cardinality(Logouts) < MaxLogout
  /\ SetSession(logout(Session))
  /\ race' = [race EXCEPT
                !.arrived = Append(@, [a |-> 0, status |-> -1, body |-> Null,
                                       with |-> InFlight, out |-> Nothing])]
  /\ UNCHANGED <<url, raceFrame>>

RaceNext ==
  \/ \E a \in Attempt : LoginIssue(a)
  \/ \E a \in Attempt, body \in LoginBodies : Login2xx(a, body)
  \/ \E a \in Attempt, status \in ErrorStatus : LoginError(a, status)

RaceSpec == RaceInit /\ [][RaceNext]_vars

\* LogoutSpec: login and validateSession calls in flight while logout() is
\* called; a 2xx response to login carries a user, an error response is a
\* 401 or a 500.
LogoutStatus == {401, 500}

LogoutNext ==
  \/ \E a \in Attempt : LoginIssue(a)
  \/ \E a \in Attempt, body \in Users : Login2xx(a, body)
  \/ \E a \in Attempt, status \in LogoutStatus : LoginError(a, status)
  \/ \E a \in Attempt : ValidateIssue(a)
  \/ \E a \in Attempt : Validate2xx(a)
  \/ \E a \in Attempt, status \in LogoutStatus : ValidateError(a, status)
  \/ RaceLogout

LogoutSpec == RaceInit /\ [][LogoutNext]_vars

\* The last two responses processed, when there are two.
LastArrived == race.arrived[Len(race.arrived)]

ArrivedBefore == race.arrived[Len(race.arrived) - 1]

\* The last two responses belong to attempts that were in flight together,
\* and login() delivered a successful envelope for both.
TwoLoginsSucceededTogether ==
  /\ Len(race.arrived) >= 2
  /\ LastArrived.a \in ArrivedBefore.with
  /\ LastArrived.out.kind = "ApiResponse" /\ LastArrived.out.ok
  /\ ArrivedBefore.out.kind = "ApiResponse" /\ ArrivedBefore.out.ok

\* C21: when two login attempts were in flight together and both succeeded,
\* the current user after the second response is the user that response
\* carried, whether its attempt was issued first or second.
C21_LastResponseWins ==
  (TwoLoginsSucceededTogether /\ LastArrived.body \in Users) =>
    getCurrentUser(Session) = LastArrived.body

\* Two attempts in flight together, both answered with a user, the attempt
\* issued first answered last and with another user than the other.
C21_Witness ==
  /\ TwoLoginsSucceededTogether
  /\ LastArrived.body \in Users
  /\ ArrivedBefore.body \in Users
  /\ LastArrived.body # ArrivedBefore.body
  /\ IssuedAt(LastArrived.a) < IssuedAt(ArrivedBefore.a)
  /\ getCurrentUser(Session) = LastArrived.body

(***************************************************************************)
(* AuthGuard on the route /videos                                          *)
(***************************************************************************)
VideosUrl == "/videos"

\* The routes without canActivate that the model visits.
OpenUrls == {StartUrl, LoginUrl}

\* AuthGuard up to its first return: of(true) when isAuthenticated(), else the
\* validateSession() call whose result the pipe will handle.
AuthGuard(s) ==
  IF isAuthenticatedCookie(s)
  THEN [calls |-> FALSE, emits |-> TRUE, value |-> TRUE]
  ELSE [calls |-> TRUE, emits |-> FALSE, value |-> FALSE]

\* A faulty pipe of AuthGuard: whatever validateSession emitted, true is returned.
AuthGuardPipeGrants(isSessionValid) ==
  [nav |-> ~isSessionValid, emits |-> TRUE, value |-> TRUE]

\* The pipe of AuthGuard on the value validateSession() emits: the tap
\* navigates to /auth/login when it is false, the map hands it to the router.
AuthGuardPipe(isSessionValid) ==
  [nav |-> ~isSessionValid, emits |-> TRUE,
   value |-> IF isSessionValid THEN TRUE ELSE FALSE]

\* The requests that have left and are not yet answered.
Sent == {r \in Req : reqs[r].st = "sent"}

\* The history record of a step: the session, the url and the requests in
\* flight before it, whether the step is AuthGuard's or answers the
\* validateSession call AuthGuard made, what validateSession emitted, what
\* AuthGuard emitted, and whether AuthGuard called router.navigate.
GuardStep(act, r, op, status) ==
  [act |-> act, r |-> r, op |-> op, status |-> status, pre |-> Session,
   url |-> url, sent |-> Sent, byGuard |-> FALSE, valid |-> FALSE,
   emits |-> FALSE, value |-> FALSE, nav |-> FALSE]

GuardInit ==
  /\ deploy = "cookie"
  /\ localStorage = EmptyStore
  /\ isAuthenticatedSubject = FALSE
  /\ currentUserSubject = Null
  /\ isRefreshing = FALSE
  /\ refreshTokenSubject = Null
  /\ reqs = [r \in Req |-> IdleReq]
  /\ url = StartUrl
  /\ last = GuardStep("Init", 0, "none", -1)
  /\ observer = NoObserver
  /\ emitted = NoEmissions
  /\ errorIn = NotCalled
  /\ thrown = NotThrown
  /\ race = NoRace
  /\ videoList = NewVideoList
  /\ player = NewPlayer
  /\ notification = NoNotification
  /\ login = NewLogin
  /\ activate = NewActivate
  /\ guard = IdleGuard
  /\ videoService = NewVideoService
  /\ register = NewRegister

\* What no step of this specification changes.
guardFrame == <<deploy, isRefreshing, refreshTokenSubject, obsVars, errVars,
                race, videoService, register, pageVars>>

\* The router starts a navigation to /videos and runs canActivate: access at
\* once for an authenticated session, else validateSession() is called and
\* the navigation waits for its value.
NavigateToVideos ==
  /\ ~guard.pending
  /\ LET g == AuthGuard(Session)
     IN  IF g.calls
         THEN \E r \in Req :
                /\ reqs[r].st = "idle"
                /\ \A x \in Req : reqs[x].st = "idle" => r <= x
                /\ reqs' = [reqs EXCEPT ![r] = [st |-> "sent", op |-> "validateSession",
                                                hdr |-> Null, nest |-> 0]]
                /\ guard' = [pending |-> TRUE, slot |-> r]
                /\ url' = url
                /\ last' = GuardStep("AuthGuard", r, "validateSession", -1)
         ELSE /\ url' = IF g.value THEN VideosUrl ELSE url
              /\ last' = [GuardStep("AuthGuard", 0, "none", -1) EXCEPT
                            !.emits = g.emits, !.value = g.value]
              /\ UNCHANGED <<reqs, guard>>
  /\ UNCHANGED <<isAuthenticatedSubject, currentUserSubject, localStorage,
                 guardFrame>>

\* A navigation to a route that has no guard.
NavigateOpen(u) ==
  /\ ~guard.pending
  /\ u # url
  /\ url' = u
  /\ last' = GuardStep("Navigate", 0, "none", -1)
  /\ UNCHANGED <<isAuthenticatedSubject, currentUserSubject, localStorage,
                 reqs, guard, guardFrame>>

\* A component calls login(): the request leaves.
GuardLoginCall(r) ==
  /\ reqs[r].st = "idle"
  /\ reqs' = [reqs EXCEPT ![r] = [st |-> "sent", op |-> "login", hdr |-> Null,
                                  nest |-> 0]]
  /\ last' = GuardStep("Call", r, "login", -1)
  /\ UNCHANGED <<isAuthenticatedSubject, currentUserSubject, localStorage,
                 url, guard, guardFrame>>

\* A 2xx response: the map callback of the operation, and for the call
\* AuthGuard made the pipe of AuthGuard on the value it emits.
Guard2xx(r, body) ==
  /\ reqs[r].st = "sent"
  /\ body \in BodiesOf(reqs[r].op)
  /\ LET op == reqs[r].op
         mine == guard.pending /\ guard.slot = r
         res == sessionOpMap(op, Session, body)
         g == AuthGuardPipe(res.out.ok)
     IN  /\ SetSession(res.s)
         /\ url' = IF ~mine THEN url
                   ELSE IF g.nav THEN LoginUrl
                   ELSE IF g.value THEN VideosUrl ELSE url
         /\ guard' = IF mine THEN IdleGuard ELSE guard
         /\ last' = IF mine
                    THEN [GuardStep("Response", r, op, 200) EXCEPT
                            !.byGuard = TRUE, !.valid = res.out.ok,
                            !.emits = g.emits, !.value = g.value, !.nav = g.nav]
                    ELSE GuardStep("Response", r, op, 200)
  /\ reqs' = [reqs EXCEPT ![r] = IdleReq]
  /\ UNCHANGED guardFrame

\* An error response: the interceptor's catchError (logout and redirect on
\* 401), the catchError of the operation, and for the call AuthGuard made the
\* pipe of AuthGuard on the value it emits.
GuardError(r, status) ==
  /\ reqs[r].st = "sent"
  /\ LET op == reqs[r].op
         mine == guard.pending /\ guard.slot = r
         i == authInterceptorCookie(Session, HttpErrorResponse(status))
         res == sessionOpCatch(op, i.s, i.err)
         g == AuthGuardPipe(res.out.ok)
     IN  /\ SetSession(res.s)
         /\ url' = IF mine /\ g.nav THEN LoginUrl
                   ELSE IF mine /\ g.value THEN VideosUrl
                   ELSE IF i.nav THEN LoginUrl ELSE url
         /\ guard' = IF mine THEN IdleGuard ELSE guard
         /\ last' = IF mine
                    THEN [GuardStep("Response", r, op, status) EXCEPT
                            !.byGuard = TRUE, !.valid = res.out.ok,
                            !.emits = g.emits, !.value = g.value, !.nav = g.nav]
                    ELSE GuardStep("Response", r, op, status)
  /\ reqs' = [reqs EXCEPT ![r] = IdleReq]
  /\ UNCHANGED guardFrame

\* A component calls authService.logout().
GuardLogout ==
  /\ SetSession(logout(Session))
  /\ last' = GuardStep("Logout", 0, "logout", -1)
  /\ UNCHANGED <<reqs, url, guard, guardFrame>>

GuardNext ==
  \/ NavigateToVideos
  \/ \E u \in OpenUrls : NavigateOpen(u)
  \/ \E r \in Req : GuardLoginCall(r)
  \/ \E r \in Req, body \in LoginBodies : Guard2xx(r, body)
  \/ \E r \in Req, status \in ErrorStatus : GuardError(r, status)
  \/ GuardLogout

GuardSpec == GuardInit /\ [][GuardNext]_vars

\* C22: AuthGuard grants at once and sends no request when isAuthenticated()
\* is true; otherwise it calls validateSession() and emits nothing until the
\* answer, then grants exactly when the validation succeeded; whenever it
\* denies it has navigated to /auth/login; and the url becomes /videos only
\* in a step in which AuthGuard emitted true.
C22_GuardGrantsOnlyValidSession ==
  /\ (last.act = "AuthGuard" /\ isAuthenticatedCookie(last.pre)) =>
       last.emits /\ last.value /\ Sent = last.sent
  /\ (last.act = "AuthGuard" /\ ~isAuthenticatedCookie(last.pre)) =>
       /\ ~last.emits
       /\ \E r \in Req \ last.sent :
            Sent = last.sent \cup {r} /\ reqs[r].op = "validateSession"
  /\ (last.act = "Response" /\ last.byGuard) =>
       /\ last.emits
       /\ last.valid <=> last.status = 200
       /\ last.value <=> last.valid
  /\ (last.emits /\ ~last.value) => last.nav /\ url = LoginUrl
  /\ (url = VideosUrl /\ last.url # VideosUrl) => last.emits /\ last.value

\* AuthGuard called validateSession, the validation failed, and AuthGuard
\* denied and redirected to the login page.
C22_Witness ==
  /\ last.act = "Response" /\ last.byGuard
  /\ last.status = 500
  /\ last.emits /\ ~last.value
  /\ last.nav /\ url = LoginUrl

(***************************************************************************)
(* VideoService                                                            *)
(***************************************************************************)
\* The videos of one response.
MaxVideos == 3

DayMs == 24 * 60 * 60 * 1000

\* calculateLatestVideos: 5 * 24 * 60 * 60 * 1000
FiveDays == 5 * DayMs

\* The clock readings of the model, in milliseconds.
Today == 10 * DayMs

Nows == {Today, Today + DayMs}

BadDate == [given |-> TRUE, parses |-> FALSE, time |-> 0]

DateAt(t) == [given |-> TRUE, parses |-> TRUE, time |-> t]

\* Four days and six days before Today; a day after Today the first of them
\* is exactly five days old.
Dates ==
  {NoDate, BadDate} \cup {DateAt(t) : t \in {Today - 4 * DayMs, Today - 6 * DayMs}}

\* A missing category, the empty string, and names in mixed case.
Categories == {Null, "", "Action", "action", "Comedy"}

\* The videos the backend answers with: every category with one date, every
\* date with one category.
VideoKinds ==
  {[category |-> c, created_at |-> DateAt(Today - 4 * DayMs)] : c \in Categories}
    \cup {[category |-> "action", created_at |-> d] : d \in Dates}

\* The lists of at most MaxVideos videos; the id of a video is its place.
VideoLists ==
  UNION {{[i \in 1..n |-> [id |-> i, category |-> ks[i].category,
                           created_at |-> ks[i].created_at]] :
            ks \in [1..n -> VideoKinds]} : n \in 0..MaxVideos}

\* A faulty toLowerCase: the string as it is.
toLowerCaseKeepsCase(c) == c

\* String.prototype.toLowerCase on the category names of the model.
toLowerCase(c) ==
  CASE c = "Action" -> "action"
    [] c = "Comedy" -> "comedy"
    [] OTHER -> c

\* The truthiness test of filter(category => category) and of !video.created_at.
HasCategory(v) == v.category # Null /\ v.category # ""

\* Array.from(new Set(xs)): the elements in the order they were first added.
ArrayFromSet(xs) ==
  LET F[i \in 0..Len(xs)] ==
        IF i = 0 THEN <<>>
        ELSE IF \E j \in 1..Len(F[i - 1]) : F[i - 1][j] = xs[i]
             THEN F[i - 1]
             ELSE Append(F[i - 1], xs[i])
  IN  F[Len(xs)]

\* getCategories(): map to the category, drop the falsy ones, lower-case, Set.
getCategories(videos) ==
  LET withCategory == SelectSeq(videos, HasCategory)
  IN  ArrayFromSet([i \in 1..Len(withCategory) |->
                      toLowerCase(withCategory[i].category)])

\* A faulty getVideosByCategory: the category of the video is compared as it
\* is written.
getVideosByCategoryExact(videos, category) ==
  LET matches(v) == v.category # Null /\ v.category = toLowerCase(category)
  IN  SelectSeq(videos, matches)

\* getVideosByCategory(category): video.category?.toLowerCase() ===
\* category.toLowerCase(); a missing category gives undefined and no match.
getVideosByCategory(videos, category) ==
  LET matches(v) == /\ v.category # Null
                    /\ toLowerCase(v.category) = toLowerCase(category)
  IN  SelectSeq(videos, matches)

\* A faulty test of calculateLatestVideos: a date exactly five days old is out.
isLatestStrictly(v, now) ==
  /\ v.created_at.given
  /\ v.created_at.parses
  /\ v.created_at.time > now - FiveDays

\* The filter of calculateLatestVideos: no created_at, no; an unreadable date
\* gives NaN and every comparison with it is false.
isLatest(v, now) ==
  IF ~v.created_at.given THEN FALSE
  ELSE /\ v.created_at.parses
       /\ v.created_at.time >= now - FiveDays

\* calculateLatestVideos(videos) with the clock at now.
calculateLatestVideos(videos, now) ==
  LET test(v) == isLatest(v, now)
  IN  SelectSeq(videos, test)

\* processVideos of VideoList: the same selection, by getTime().
processVideos(videos, now) ==
  LET test(v) == /\ v.created_at.given
                 /\ v.created_at.parses
                 /\ v.created_at.time >= now - FiveDays
  IN  SelectSeq(videos, test)

\* What an observable hands to its subscriber, one notification at a time.
NextEnvelope(success, data, message) ==
  [kind |-> "next", success |-> success, data |-> data, message |-> message]

Complete == [kind |-> "complete", success |-> FALSE, data |-> <<>>, message |-> ""]

\* A faulty map callback of loadAndSetupVideos: the first video is not made current.
loadAndSetupVideosMapKeepsCurrent(vs, videos, now) ==
  [vs |-> [videosSubject |-> videos,
           latestVideosSubject |-> calculateLatestVideos(videos, now),
           currentVideoSubject |-> vs.currentVideoSubject],
   out |-> <<NextEnvelope(TRUE, videos, ""), Complete>>]

\* The map callback of loadAndSetupVideos; the request completes after its
\* one response.
loadAndSetupVideosMap(vs, videos, now) ==
  [vs |-> [videosSubject |-> videos,
           latestVideosSubject |-> calculateLatestVideos(videos, now),
           currentVideoSubject |->
             IF Len(videos) > 0 THEN videos[1] ELSE vs.currentVideoSubject],
   out |-> <<NextEnvelope(TRUE, videos, ""), Complete>>]

\* The message handleError of VideoService chooses.
videoErrorMessage(error) ==
  CASE error.status = 401 -> "Nicht autorisiert. Bitte melden Sie sich erneut an."
    [] error.status = 403 -> "Zugriff verweigert."
    [] error.status = 404 -> "Videos nicht gefunden."
    [] error.status = 500 -> "Server-Fehler. Bitte versuchen Sie es später erneut."
    [] OTHER -> IF "body" \in DOMAIN error /\ error.body # ""
                THEN error.body
                ELSE IF error.kind = "HttpErrorResponse"
                     THEN "Http failure response"
                     ELSE error.kind

\* A faulty handleError of VideoService: the error is thrown on.
videoHandleErrorRethrows(error) ==
  <<[kind |-> "error", success |-> FALSE, data |-> <<>>,
     message |-> videoErrorMessage(error)]>>

\* handleError of VideoService: one failed envelope as a value, then complete.
videoHandleError(error) ==
  <<NextEnvelope(FALSE, <<>>, videoErrorMessage(error)), Complete>>

\* The catchError callback of loadAndSetupVideos.
loadAndSetupVideosCatch(vs, error) == [vs |-> vs, out |-> videoHandleError(error)]

\* setCurrentVideo(video)
setCurrentVideo(vs, video) == [vs EXCEPT !.currentVideoSubject = video]

\* The history record of a step: the response, the clock reading, the
\* subjects before an error response, what the subscriber of
\* loadAndSetupVideos received, the latestVideos its subscriber VideoList
\* computed, the value a getCategories() call returned, and the values of
\* getVideosByCategory for its categories.
VideoStep(act, status, body, now) ==
  [act |-> act, status |-> status, body |-> body, now |-> now,
   pre |-> NewVideoService, out |-> <<>>, listLatest |-> <<>>, cats |-> <<>>,
   byCategory |-> <<>>]

VideoInit ==
  /\ deploy = "cookie"
  /\ localStorage = EmptyStore
  /\ isAuthenticatedSubject = FALSE
  /\ currentUserSubject = Null
  /\ isRefreshing = FALSE
  /\ refreshTokenSubject = Null
  /\ reqs = [r \in Req |-> IdleReq]
  /\ url = StartUrl
  /\ observer = NoObserver
  /\ emitted = NoEmissions
  /\ errorIn = NotCalled
  /\ thrown = NotThrown
  /\ race = NoRace
  /\ videoList = NewVideoList
  /\ player = NewPlayer
  /\ notification = NoNotification
  /\ login = NewLogin
  /\ activate = NewActivate
  /\ guard = IdleGuard
  /\ videoService = NewVideoService
  /\ register = NewRegister
  /\ last = VideoStep("Init", -1, <<>>, Today)

\* What no step of this specification changes.
videoFrame == <<deploy, isRefreshing, refreshTokenSubject, obsVars, errVars,
                race, guard, register, pageVars>>

\* The slot of the request of loadAndSetupVideos.
VideoReq == 1

\* loadAndSetupVideos() is subscribed to: the request leaves.
LoadCall ==
  /\ reqs[VideoReq].st = "idle"
  /\ reqs' = [reqs EXCEPT ![VideoReq] = [st |-> "sent", op |-> "loadAndSetupVideos",
                                         hdr |-> Null, nest |-> 0]]
  /\ last' = VideoStep("Call", -1, <<>>, Today)
  /\ UNCHANGED <<isAuthenticatedSubject, currentUserSubject, localStorage, url,
                 videoService, videoFrame>>

\* The lists a load can find: any list while the service holds none; after
\* that the list as it was, without its first video, or empty.
Reloads(videos) ==
  IF videos = <<>> THEN VideoLists ELSE {videos, Tail(videos), <<>>}

\* The 2xx response with the list of videos: the map callback runs, and the
\* next callback of VideoList.loadVideos after it.
Load2xx(videos, now) ==
  /\ reqs[VideoReq].st = "sent"
  /\ videos \in Reloads(videoService.videosSubject)
  /\ LET res == loadAndSetupVideosMap(videoService, videos, now)
     IN  /\ videoService' = res.vs
         /\ last' = [VideoStep("Response", 200, videos, now) EXCEPT
                       !.out = res.out,
                       !.listLatest =
                          IF res.out[1].success /\ Len(res.out[1].data) > 0
                          THEN processVideos(res.out[1].data, now)
                          ELSE <<>>]
  /\ reqs' = [reqs EXCEPT ![VideoReq] = IdleReq]
  /\ UNCHANGED <<isAuthenticatedSubject, currentUserSubject, localStorage, url,
                 videoFrame>>

\* An error response: the interceptor's catchError (logout and redirect on
\* 401), then the catchError of loadAndSetupVideos.
LoadError(status) ==
  /\ reqs[VideoReq].st = "sent"
  /\ LET i == authInterceptorCookie(Session, HttpErrorResponse(status))
         res == loadAndSetupVideosCatch(videoService, i.err)
     IN  /\ SetSession(i.s)
         /\ url' = IF i.nav THEN LoginUrl ELSE url
         /\ videoService' = res.vs
         /\ last' = [VideoStep("Response", status, <<>>, Today) EXCEPT
                       !.pre = videoService, !.out = res.out]
  /\ reqs' = [reqs EXCEPT ![VideoReq] = IdleReq]
  /\ UNCHANGED videoFrame

\* A component calls setCurrentVideo with a video of the list.
SetCurrentVideo(i) ==
  /\ i \in 1..Len(videoService.videosSubject)
  /\ videoService.videosSubject[i] # videoService.currentVideoSubject
  /\ videoService' = setCurrentVideo(videoService, videoService.videosSubject[i])
  /\ last' = VideoStep("setCurrentVideo", -1, <<>>, Today)
  /\ UNCHANGED <<isAuthenticatedSubject, currentUserSubject, localStorage, url,
                 reqs, videoFrame>>

\* A component calls getCategories(), and getVideosByCategory(c) for each
\* category c returned.
GetCategories ==
  /\ last.act # "getCategories"
  /\ last' = [VideoStep("getCategories", -1, <<>>, Today) EXCEPT
                !.cats = getCategories(videoService.videosSubject),
                !.byCategory =
                   [i \in 1..Len(getCategories(videoService.videosSubject)) |->
                      getVideosByCategory(videoService.videosSubject,
                                          getCategories(videoService.videosSubject)[i])]]
  /\ UNCHANGED <<isAuthenticatedSubject, currentUserSubject, localStorage, url,
                 reqs, videoService, videoFrame>>

VideoNext ==
  \/ LoadCall
  \/ \E videos \in Reloads(videoService.videosSubject), now \in Nows :
       Load2xx(videos, now)
  \/ \E status \in ErrorStatus : LoadError(status)
  \/ \E i \in 1..MaxVideos : SetCurrentVideo(i)
  \/ GetCategories

VideoSpec == VideoInit /\ [][VideoNext]_vars

(***************************************************************************)
(* Properties of VideoService                                              *)
(***************************************************************************)
\* The lower-case spelling of the category names of the model.
LowerCased(c) ==
  IF c \in {"Action", "action"} THEN "action"
  ELSE IF c \in {"Comedy", "comedy"} THEN "comedy" ELSE c

\* The place of the first video of the list whose category, lower-cased, is c.
FirstWith(videos, c) ==
  CHOOSE k \in 1..Len(videos) :
    /\ HasCategory(videos[k]) /\ LowerCased(videos[k].category) = c
    /\ \A j \in 1..(k - 1) :
         ~(HasCategory(videos[j]) /\ LowerCased(videos[j].category) = c)

\* C23: getCategories() returns the lower-cased categories of the videos that
\* have one, each exactly once, in the order of their first occurrence.
C23_CategoriesLowerCasedOnceInOrder ==
  last.act = "getCategories" =>
    LET videos == videoService.videosSubject
        cats == last.cats
    IN  /\ \A i \in 1..Len(cats) :
             \E k \in 1..Len(videos) :
               HasCategory(videos[k]) /\ LowerCased(videos[k].category) = cats[i]
        /\ \A k \in 1..Len(videos) :
             HasCategory(videos[k]) =>
               Cardinality({i \in 1..Len(cats) :
                              cats[i] = LowerCased(videos[k].category)}) = 1
        /\ \A i, j \in 1..Len(cats) :
             i < j => FirstWith(videos, cats[i]) < FirstWith(videos, cats[j])

\* The categories Action, action, Comedy give action, comedy.
C23_Witness ==
  /\ last.act = "getCategories"
  /\ Len(videoService.videosSubject) = 3
  /\ videoService.videosSubject[1].category = "Action"
  /\ videoService.videosSubject[2].category = "action"
  /\ videoService.videosSubject[3].category = "Comedy"
  /\ last.cats = <<"action", "comedy">>

\* A video has a created_at that is at or after now minus five days.
CreatedWithinFiveDays(v, now) ==
  /\ v.created_at.given
  /\ v.created_at.parses
  /\ v.created_at.time + 5 * 24 * 60 * 60 * 1000 >= now

\* latest holds exactly the videos of the list created within five days of
\* now, each once and in the order of the list.
ExactlyTheLatest(latest, videos, now) ==
  /\ \A k \in 1..Len(videos) :
       CreatedWithinFiveDays(videos[k], now) <=>
         \E i \in 1..Len(latest) : latest[i] = videos[k]
  /\ \A i \in 1..Len(latest) : \E k \in 1..Len(videos) : latest[i] = videos[k]
  /\ \A i, j \in 1..Len(latest) : i < j => latest[i].id < latest[j].id

\* C24: after a successful load, latestVideos (of the service, and of
\* VideoList for a list that is not empty) holds exactly the loaded videos
\* whose created_at is at or after now minus five days.
C24_LatestWithinFiveDays ==
  (last.act = "Response" /\ last.status = 200) =>
    /\ ExactlyTheLatest(videoService.latestVideosSubject, last.body, last.now)
    /\ Len(last.body) > 0 =>
         ExactlyTheLatest(last.listLatest, last.body, last.now)

\* A load of three videos, created four days ago, six days ago and without
\* created_at: the first one alone is among the latest.
C24_Witness ==
  /\ last.act = "Response" /\ last.status = 200
  /\ Len(last.body) = 3
  /\ last.body[1].created_at = DateAt(last.now - 4 * DayMs)
  /\ last.body[2].created_at = DateAt(last.now - 6 * DayMs)
  /\ last.body[3].created_at = NoDate
  /\ videoService.latestVideosSubject = <<last.body[1]>>
  /\ last.listLatest = <<last.body[1]>>

\* C29: on a 2xx response loadAndSetupVideos stores the list as videos, sets
\* latestVideos to the videos of that list created within five days, makes
\* the first video current when there is one, and emits one envelope with
\* success true and the list as data.
C29_SuccessfulLoadSetsState ==
  (last.act = "Response" /\ last.status = 200) =>
    /\ videoService.videosSubject = last.body
    /\ \A i \in 1..Len(videoService.latestVideosSubject) :
         /\ \E k \in 1..Len(last.body) :
              videoService.latestVideosSubject[i] = last.body[k]
         /\ CreatedWithinFiveDays(videoService.latestVideosSubject[i], last.now)
    /\ \A k \in 1..Len(last.body) :
         CreatedWithinFiveDays(last.body[k], last.now) =>
           \E i \in 1..Len(videoService.latestVideosSubject) :
             videoService.latestVideosSubject[i] = last.body[k]
    /\ Len(last.body) > 0 => videoService.currentVideoSubject = last.body[1]
    /\ Len(last.out) >= 1
    /\ last.out[1].kind = "next"
    /\ last.out[1].success
    /\ last.out[1].data = last.body
    /\ \A n \in 2..Len(last.out) : last.out[n].kind # "next"

\* A reload whose list starts with another video than the one that was
\* current: that video is current now.
C29_Witness ==
  /\ last.act = "Response" /\ last.status = 200
  /\ Len(last.body) = 2
  /\ last.body[1].id = 2
  /\ videoService.currentVideoSubject = last.body[1]
  /\ Len(videoService.latestVideosSubject) = 1
  /\ last.out[1].success /\ last.out[1].data = last.body

\* C30: on a failed request loadAndSetupVideos emits exactly one envelope,
\* with success false, as a value, then completes, and videos, latestVideos
\* and currentVideo are what they were.
C30_FailedLoadKeepsState ==
  (last.act = "Response" /\ last.status # 200) =>
    /\ Len(last.out) = 2
    /\ last.out[1].kind = "next" /\ ~last.out[1].success
    /\ last.out[2].kind = "complete"
    /\ videoService = last.pre

\* A reload is answered with 401 while the service holds videos: the failed
\* envelope is delivered and the videos stay.
C30_Witness ==
  /\ last.act = "Response" /\ last.status = 401
  /\ Len(videoService.videosSubject) > 0
  /\ videoService.currentVideoSubject # NoVideo
  /\ videoService = last.pre
  /\ Len(last.out) = 2 /\ last.out[1].kind = "next" /\ ~last.out[1].success
  /\ url = LoginUrl

(***************************************************************************)
(* The Register component                                                  *)
(***************************************************************************)
\* The register requests in flight at one time, and the calls of one run.
MaxPending == 1

MaxSubmit == 2

SuccessMessage == "Registration successful! Please check your email for activation."

RegistrationFailed == "Registration failed. Please try again."

\* The payloads of the error responses to register: none, a field with a
\* message, a field with an empty message.
RegisterPayloads ==
  {NoPayload, ObjectPayload(<<ArrayValue(<<"a">>)>>),
   ObjectPayload(<<StringValue("")>>)}

\* const registerData = {email, password, confirmed_password: confirmPassword}
registerData(value) ==
  [email |-> value.email, password |-> value.password,
   confirmed_password |-> value.confirmPassword]

\* A control is given a new value: the form is validated again, and the
\* valueChanges subscription of ngOnInit clears errorMessage.
patchValue(c, value) ==
  [c EXCEPT !.registerForm = FormGroup(value), !.errorMessage = ""]

\* A faulty onSubmit: the validity of the form is not looked at.
onSubmitUnchecked(c) ==
  [c EXCEPT !.isSubmitting = TRUE, !.pending = @ + 1,
            !.calls = Append(@, registerData(c.registerForm.value))]

\* onSubmit(): with a valid form isSubmitting is set and authService.register
\* is called with registerData, else markAllAsTouched().
onSubmit(c) ==
  IF c.registerForm.valid
  THEN [c EXCEPT !.isSubmitting = TRUE, !.pending = @ + 1,
                 !.calls = Append(@, registerData(c.registerForm.value))]
  ELSE [c EXCEPT !.touched = TRUE]

\* A faulty next callback: isSubmitting is reset, the router is not called.
registerNextStays(c) == [c EXCEPT !.isSubmitting = FALSE, !.pending = @ - 1]

\* The next callback of onSubmit, and the complete callback after it.
registerNext(c) ==
  [c EXCEPT !.isSubmitting = FALSE, !.pending = @ - 1,
            !.navigated = Append(@, [url |-> LoginUrl, message |-> SuccessMessage])]

\* A faulty error callback: isSubmitting is left as it is.
registerErrorKeepsSubmitting(c, error) ==
  [c EXCEPT !.errorMessage = IF error.message # "" THEN error.message
                             ELSE RegistrationFailed,
            !.pending = @ - 1]

\* The error callback of onSubmit: error.message || 'Registration failed...'
registerError(c, error) ==
  [c EXCEPT !.errorMessage = IF error.message # "" THEN error.message
                             ELSE RegistrationFailed,
            !.isSubmitting = FALSE, !.pending = @ - 1]

\* The history record of a step: the component before a submit or a
\* response, whether register delivered a value or an error, and the error.
\* ngOnInit has built the form and patched the email of the query
\* parameters into it, when there is one.
RegisterStep(act, status) ==
  [act |-> act, status |-> status, pre |-> NewRegister, failed |-> FALSE,
   error |-> NotThrown, url |-> url]

RegisterInit ==
  /\ deploy = "cookie"
  /\ localStorage = EmptyStore
  /\ isAuthenticatedSubject = FALSE
  /\ currentUserSubject = Null
  /\ isRefreshing = FALSE
  /\ refreshTokenSubject = Null
  /\ reqs = [r \in Req |-> IdleReq]
  /\ url = "/auth/register"
  /\ observer = NoObserver
  /\ emitted = NoEmissions
  /\ errorIn = NotCalled
  /\ thrown = NotThrown
  /\ race = NoRace
  /\ videoList = NewVideoList
  /\ player = NewPlayer
  /\ notification = NoNotification
  /\ login = NewLogin
  /\ activate = NewActivate
  /\ guard = IdleGuard
  /\ videoService = NewVideoService
  /\ register \in
       {[NewRegister EXCEPT !.registerForm = FormGroup([EmptyForm EXCEPT !.email = e])] :
          e \in Emails}
  /\ last = RegisterStep("Init", -1)

\* What no step of this specification changes.
registerFrame == <<deploy, isRefreshing, refreshTokenSubject, reqs, obsVars,
                   errVars, race, guard, videoService, pageVars>>

\* The user types into one control or ticks the box.
SetEmail(e) ==
  /\ e # register.registerForm.value.email
  /\ register' = patchValue(register, [register.registerForm.value EXCEPT !.email = e])
  /\ last' = RegisterStep("patchValue", -1)
  /\ UNCHANGED <<isAuthenticatedSubject, currentUserSubject, localStorage, url,
                 registerFrame>>

SetPassword(p) ==
  /\ p # register.registerForm.value.password
  /\ register' = patchValue(register, [register.registerForm.value EXCEPT !.password = p])
  /\ last' = RegisterStep("patchValue", -1)
  /\ UNCHANGED <<isAuthenticatedSubject, currentUserSubject, localStorage, url,
                 registerFrame>>

SetConfirmPassword(p) ==
  /\ p # register.registerForm.value.confirmPassword
  /\ register' = patchValue(register,
                            [register.registerForm.value EXCEPT !.confirmPassword = p])
  /\ last' = RegisterStep("patchValue", -1)
  /\ UNCHANGED <<isAuthenticatedSubject, currentUserSubject, localStorage, url,
                 registerFrame>>

SetPrivacyPolicy ==
  /\ register' = patchValue(register,
                            [register.registerForm.value EXCEPT !.privacyPolicy = ~@])
  /\ last' = RegisterStep("patchValue", -1)
  /\ UNCHANGED <<isAuthenticatedSubject, currentUserSubject, localStorage, url,
                 registerFrame>>

\* The form is submitted.
OnSubmit ==
  /\ register.registerForm.valid =>
       register.pending < MaxPending /\ Len(register.calls) < MaxSubmit
  /\ register' = onSubmit(register)
  /\ last' = [RegisterStep("onSubmit", -1) EXCEPT !.pre = register]
  /\ UNCHANGED <<isAuthenticatedSubject, currentUserSubject, localStorage, url,
                 registerFrame>>

\* The 2xx response to a register request: register() delivers the envelope
\* of handleSuccessResponse, or for a null body the error of
\* handleErrorResponse; the callbacks of onSubmit run.
Register2xx(body) ==
  /\ register.pending > 0
  /\ LET res == registerMap(Session, body)
         error == apiError(ErrorWith("TypeError", NoPayload))
     IN  IF res.out.ok
         THEN /\ register' = registerNext(register)
              /\ url' = LoginUrl
              /\ last' = [RegisterStep("Response", 200) EXCEPT !.pre = register]
         ELSE /\ register' = registerError(register, error)
              /\ url' = url
              /\ last' = [RegisterStep("Response", 200) EXCEPT
                            !.pre = register, !.failed = TRUE, !.error = error]
  /\ UNCHANGED <<isAuthenticatedSubject, currentUserSubject, localStorage,
                 registerFrame>>

\* An error response: the interceptor's catchError (logout and redirect on
\* 401), handleErrorResponse, then the error callback of onSubmit.
RegisterFails(status, payload) ==
  /\ register.pending > 0
  /\ LET i == authInterceptorCookie(Session, HttpErrorResponse(status))
         error == IF i.nav THEN apiError(ErrorWith("Error", NoPayload))
                  ELSE apiError(ErrorWith("HttpErrorResponse", payload))
     IN  /\ SetSession(registerCatch(i.s, i.err).s)
         /\ url' = IF i.nav THEN LoginUrl ELSE url
         /\ register' = registerError(register, error)
         /\ last' = [RegisterStep("Response", status) EXCEPT
                       !.pre = register, !.failed = TRUE, !.error = error]
  /\ UNCHANGED registerFrame

RegisterNext ==
  \/ \E e \in Emails : SetEmail(e)
  \/ \E p \in Passwords : SetPassword(p)
  \/ \E p \in Passwords : SetConfirmPassword(p)
  \/ SetPrivacyPolicy
  \/ OnSubmit
  \/ \E body \in {NullBody, NoUserBody} : Register2xx(body)
  \/ \E status \in ErrorStatus, payload \in RegisterPayloads :
       RegisterFails(status, payload)

RegisterSpec == RegisterInit /\ [][RegisterNext]_vars

(***************************************************************************)
(* Properties of the Register component                                    *)
(***************************************************************************)
\* C25: onSubmit() with an invalid form does not call authService.register;
\* it marks the fields as touched and changes nothing else.
C25_InvalidFormNeverRegisters ==
  (last.act = "onSubmit" /\ ~last.pre.registerForm.valid) =>
    /\ register.calls = last.pre.calls
    /\ register.pending = last.pre.pending
    /\ register.touched
    /\ register = [last.pre EXCEPT !.touched = TRUE]

\* A form with unequal passwords is submitted: no call, the fields touched.
C25_Witness ==
  /\ last.act = "onSubmit"
  /\ ~last.pre.registerForm.valid
  /\ "passwordMismatch" \in last.pre.registerForm.errors
  /\ ~last.pre.touched /\ register.touched
  /\ register.calls = <<>>

\* C26: onSubmit() with a valid form calls register once, with email,
\* password and confirmed_password of the form; when register delivers its
\* value the component navigates to /auth/login with the success message
\* and isSubmitting is false; no navigation comes before its call.
C26_ValidSubmitRegistersThenNavigates ==
  /\ (last.act = "onSubmit" /\ last.pre.registerForm.valid) =>
       /\ register.calls =
            Append(last.pre.calls,
                   [email |-> register.registerForm.value.email,
                    password |-> register.registerForm.value.password,
                    confirmed_password |->
                      register.registerForm.value.confirmPassword])
       /\ register.navigated = last.pre.navigated
  /\ (last.act = "Response" /\ ~last.failed) =>
       /\ register.calls = last.pre.calls
       /\ register.navigated =
            Append(last.pre.navigated,
                   [url |-> "/auth/login",
                    message |-> "Registration successful! Please check your email for activation."])
       /\ url = "/auth/login"
       /\ ~register.isSubmitting
  /\ Len(register.navigated) + register.pending <= Len(register.calls)

\* The register call of a valid form has been answered with success.
C26_Witness ==
  /\ last.act = "Response" /\ ~last.failed
  /\ last.pre.isSubmitting /\ ~register.isSubmitting
  /\ Len(register.calls) = 1
  /\ register.calls[1].email = "test@example.com"
  /\ register.calls[1].confirmed_password = register.calls[1].password
  /\ Len(register.navigated) = 1

RegisterFailed == last.act = "Response" /\ last.failed

\* C27, as stated: when register fails, errorMessage is the message of the
\* error, the component does not navigate and isSubmitting is false.
C27_FailureShowsErrorMessage ==
  RegisterFailed =>
    /\ register.errorMessage = last.error.message
    /\ register.navigated = last.pre.navigated
    /\ ~register.isSubmitting

\* C27, amended: errorMessage is the message of the error when it is not
\* empty, else 'Registration failed. Please try again.'; the component does
\* not navigate and isSubmitting is false.
C27_FailureShowsErrorMessageOrDefault ==
  RegisterFailed =>
    /\ last.error.message # "" => register.errorMessage = last.error.message
    /\ last.error.message = "" =>
         register.errorMessage = "Registration failed. Please try again."
    /\ register.navigated = last.pre.navigated
    /\ ~register.isSubmitting

\* A register call fails with a message: it is shown, nothing else happens.
C27_Witness ==
  /\ RegisterFailed
  /\ last.status = 500
  /\ last.error.message = "a"
  /\ register.errorMessage = "a"
  /\ last.pre.isSubmitting /\ ~register.isSubmitting
  /\ register.navigated = <<>>

\* C28: the form is invalid at the start, and valid exactly when the email is
\* present and well formed, the password has eight characters or more,
\* confirmPassword is present and equal to the password and privacyPolicy is
\* true; unequal passwords put passwordMismatch on the form.
C28_FormValidity ==
  LET form == register.registerForm
  IN  /\ last.act = "Init" => ~form.valid
      /\ form.valid <=>
           /\ form.value.email = "test@example.com"
           /\ Len(form.value.password) >= 8
           /\ form.value.confirmPassword # ""
           /\ form.value.confirmPassword = form.value.password
           /\ form.value.privacyPolicy
      /\ form.value.password # form.value.confirmPassword =>
           "passwordMismatch" \in form.errors

\* Every control has been filled in and the form is valid.
C28_Witness ==
  /\ register.registerForm.valid
  /\ register.registerForm.value.password = "password"
  /\ register.registerForm.value.confirmPassword = "password"
  /\ register.registerForm.value.privacyPolicy
  /\ register.registerForm.errors = {}

\* C38: currentVideo is null or a video of the current list, in every state of
\* VideoService, also after a reload and after a reload with an empty list.
C38_CurrentVideoInList ==
  \/ videoService.currentVideoSubject = NoVideo
  \/ \E i \in 1..Len(videoService.videosSubject) :
       videoService.videosSubject[i] = videoService.currentVideoSubject

\* The categories under which getVideosByCategory returned the video.
ListedUnder(v) ==
  {i \in 1..Len(last.byCategory) :
     \E n \in 1..Len(last.byCategory[i]) : last.byCategory[i][n] = v}

\* C39: the categories of getCategories() partition the videos that have a
\* category: each of them is returned by getVideosByCategory for exactly one
\* category, every category has a video, and a video without a category is
\* returned for none.
C39_CategoriesPartitionVideos ==
  last.act = "getCategories" =>
    LET videos == videoService.videosSubject
    IN  /\ Len(last.byCategory) = Len(last.cats)
        /\ \A k \in 1..Len(videos) :
             IF videos[k].category # Null /\ videos[k].category # ""
             THEN Cardinality(ListedUnder(videos[k])) = 1
             ELSE ListedUnder(videos[k]) = {}
        /\ \A i \in 1..Len(last.byCategory) : Len(last.byCategory[i]) >= 1

\* Videos of the categories Action and action and one without category: one
\* category, with the two videos that have it.
C39_Witness ==
  /\ last.act = "getCategories"
  /\ Len(videoService.videosSubject) = 3
  /\ videoService.videosSubject[1].category = "Action"
  /\ videoService.videosSubject[2].category = Null
  /\ videoService.videosSubject[3].category = "action"
  /\ Len(last.byCategory) = 1
  /\ Len(last.byCategory[1]) = 2

\* The last logout() call, and the calls that succeeded after it: a 2xx
\* response for which the operation delivered its success value.
LastLogout == CHOOSE j \in Logouts : \A k \in Logouts : k <= j

SucceededSinceLogout ==
  {n \in (LastLogout + 1)..Len(race.arrived) :
     race.arrived[n].status = 200 /\ race.arrived[n].out.ok}

\* C36: after logout() the session is unauthenticated, flag false and user
\* null, until a login or validateSession that was started after that logout
\* succeeds; the answers to calls made before the logout change nothing.
C36_LogoutHoldsAgainstOldResponses ==
  (/\ Logouts # {}
   /\ \A n \in SucceededSinceLogout :
        race.arrived[n].a \in race.arrived[LastLogout].with) =>
    ~isAuthenticatedCookie(Session) /\ getCurrentUser(Session) = Null

(***************************************************************************)
(* PlayerSpec: a VideoPlayer, the Hls instances it creates, and the        *)
(* NotificationService it calls, with the clock its timers run on          *)
(***************************************************************************)
\* The Hls instances one player creates, the show() calls, and the seconds
\* the clock runs for.
MaxHls == 3

MaxShow == 2

MaxTime == 5

\* duration: number = 3000
DefaultDuration == 3000

Resolutions == {"480p", "720p", "1080p"}

\* The values of the input `video`: none (0) or the id of a video.
VideoInputs == 0..2

\* destroyHls(): if (this.hls) { this.hls.destroy(); this.hls = null; }
destroyHls(p) ==
  IF p.hls # 0 THEN [p EXCEPT !.undestroyed = @ \ {p.hls}, !.hls = 0] ELSE p

\* A faulty loadWithHls: the instance held is not destroyed first.
loadWithHlsKeepsOld(p) ==
  [p EXCEPT !.created = @ + 1, !.hls = p.created + 1,
            !.undestroyed = @ \cup {p.created + 1}]

\* loadWithHls(hlsUrl): destroyHls(), then this.hls = new Hls(...).
loadWithHls(p) ==
  LET q == destroyHls(p)
  IN  [q EXCEPT !.created = @ + 1, !.hls = q.created + 1,
                !.undestroyed = @ \cup {q.created + 1}]

\* initializePlayback(hlsUrl): Hls where it is supported, else the native
\* player (no Hls instance), else the error state.
initializePlayback(p) ==
  IF p.canHls THEN loadWithHls(p)
  ELSE IF p.canNative THEN p
  ELSE [p EXCEPT !.hasError = TRUE, !.isLoading = FALSE]

\* loadVideo()
loadVideo(p) ==
  IF p.video = 0 THEN p
  ELSE initializePlayback([p EXCEPT !.isLoading = TRUE, !.hasError = FALSE])

\* show(message, type, duration): next(notification), and a timer that will
\* call next(null); the timer is kept with the number of its show() call.
show(n, duration) ==
  [n EXCEPT !.shown = @ + 1, !.current = n.shown + 1,
            !.timers = @ \cup {[of |-> n.shown + 1, due |-> n.now + duration]}]

\* The callback of timer(duration): this.notificationSubject.next(null).
timerCallback(n, tm) == [n EXCEPT !.current = 0, !.timers = @ \ {tm}]

\* The timers that are due, and the one that fires first: the earliest due,
\* and of those the one set first.
DueTimers == {tm \in notification.timers : tm.due <= notification.now}

FirstDue ==
  CHOOSE tm \in DueTimers :
    \A o \in DueTimers : tm.due < o.due \/ (tm.due = o.due /\ tm.of <= o.of)

\* The step that led to the state: its name, the notification that was
\* current before it, and the show() call whose timer fired.
PlayerStep(act) == [act |-> act, pre |-> notification.current, of |-> 0]

PlayerInit ==
  /\ deploy = "cookie"
  /\ localStorage = EmptyStore
  /\ isAuthenticatedSubject = TRUE
  /\ currentUserSubject \in Users
  /\ isRefreshing = FALSE
  /\ refreshTokenSubject = Null
  /\ reqs = [r \in Req |-> IdleReq]
  /\ url = VideosUrl
  /\ observer = NoObserver
  /\ emitted = NoEmissions
  /\ errorIn = NotCalled
  /\ thrown = NotThrown
  /\ race = NoRace
  /\ guard = IdleGuard
  /\ videoService = NewVideoService
  /\ register = NewRegister
  /\ videoList = NewVideoList
  /\ \E v \in VideoInputs, h \in BOOLEAN, n \in BOOLEAN :
       player = [NewPlayer EXCEPT !.video = v, !.canHls = h, !.canNative = n]
  /\ notification = NoNotification
  /\ login = NewLogin
  /\ activate = NewActivate
  /\ last = [act |-> "Init", pre |-> 0, of |-> 0]

\* What no step of this specification changes.
playerFrame == <<sessVars, obsVars, errVars, race, guard, videoService,
                 register, videoList, login, activate>>

\* ngOnInit(): setDefaultResolution() picks the resolution by the width of
\* the window.
PlayerOnInit(res) ==
  /\ player.stage = "new"
  /\ player' = [player EXCEPT !.stage = "init", !.currentResolution = res]
  /\ last' = PlayerStep("ngOnInit")
  /\ UNCHANGED <<notification, playerFrame>>

\* ngAfterViewInit(): if (this.video) this.loadVideo()
PlayerAfterViewInit ==
  /\ player.stage = "init"
  /\ player' = [loadVideo(player) EXCEPT !.stage = "view"]
  /\ last' = PlayerStep("ngAfterViewInit")
  /\ UNCHANGED <<notification, playerFrame>>

\* ngOnChanges with a change of `video` that is not the first one.
PlayerVideoChange(v) ==
  /\ player.stage = "view"
  /\ v # player.video
  /\ player.created < MaxHls
  /\ player' = loadVideo([player EXCEPT !.video = v])
  /\ last' = PlayerStep("ngOnChanges")
  /\ UNCHANGED <<notification, playerFrame>>

\* onResolutionChange(event): the resolution, loadVideo(), and a notification
\* with the default duration.
PlayerResolutionChange(res) ==
  /\ player.stage = "view"
  /\ player.created < MaxHls
  /\ notification.shown < MaxShow
  /\ player' = loadVideo([player EXCEPT !.currentResolution = res])
  /\ notification' = show(notification, DefaultDuration)
  /\ last' = PlayerStep("onResolutionChange")
  /\ UNCHANGED playerFrame

\* The fatal ERROR event of the Hls instance held.
PlayerHlsError ==
  /\ player.stage = "view"
  /\ player.hls # 0
  /\ ~player.hasError
  /\ player' = [player EXCEPT !.hasError = TRUE, !.isLoading = FALSE]
  /\ last' = PlayerStep("hlsError")
  /\ UNCHANGED <<notification, playerFrame>>

\* retryLoad(), the button of the error overlay.
PlayerRetryLoad ==
  /\ player.stage = "view"
  /\ player.hasError
  /\ player.created < MaxHls
  /\ player' = loadVideo([player EXCEPT !.hasError = FALSE])
  /\ last' = PlayerStep("retryLoad")
  /\ UNCHANGED <<notification, playerFrame>>

\* ngOnDestroy(): destroyHls()
PlayerDestroy ==
  /\ player.stage \in {"init", "view"}
  /\ player' = [destroyHls(player) EXCEPT !.stage = "destroyed"]
  /\ last' = PlayerStep("ngOnDestroy")
  /\ UNCHANGED <<notification, playerFrame>>

\* A second passes while no timer is due.
TimePasses ==
  /\ DueTimers = {}
  /\ notification.now < MaxTime * 1000
  /\ notification' = [notification EXCEPT !.now = @ + 1000]
  /\ last' = PlayerStep("second")
  /\ UNCHANGED <<player, playerFrame>>

\* A timer of show() fires.
NotificationTimer ==
  /\ DueTimers # {}
  /\ notification' = timerCallback(notification, FirstDue)
  /\ last' = [PlayerStep("timer") EXCEPT !.of = FirstDue.of]
  /\ UNCHANGED <<player, playerFrame>>

PlayerNext ==
  \/ \E res \in Resolutions : PlayerOnInit(res)
  \/ PlayerAfterViewInit
  \/ \E v \in VideoInputs : PlayerVideoChange(v)
  \/ \E res \in Resolutions : PlayerResolutionChange(res)
  \/ PlayerHlsError
  \/ PlayerRetryLoad
  \/ PlayerDestroy
  \/ TimePasses
  \/ NotificationTimer

PlayerSpec == PlayerInit /\ [][PlayerNext]_vars

\* C32: at every moment at most one Hls instance that the player created is
\* not destroyed, and after ngOnDestroy none is, whatever video changes,
\* resolution changes and retries came before.
C32_AtMostOneHlsInstance ==
  /\ Cardinality(player.undestroyed) <= 1
  /\ player.undestroyed = IF player.hls = 0 THEN {} ELSE {player.hls}
  /\ player.stage = "destroyed" => player.undestroyed = {}

\* A player that created several instances and was destroyed.
C32_Witness ==
  /\ player.stage = "destroyed"
  /\ player.created = MaxHls
  /\ player.undestroyed = {}

\* The timer of the notification that was current before the step still
\* runs, and its duration has not elapsed.
OwnDurationNotElapsed ==
  \E tm \in notification.timers :
    tm.of = last.pre /\ tm.due > notification.now

\* C35: a notification stays current until its own duration has elapsed or
\* a later show() replaces it: when the timer of an earlier show() call
\* fires before that, the notification is still the current one.
C35_TimerClearsOnlyItsOwnNotification ==
  (/\ last.act = "timer"
   /\ last.pre # 0
   /\ last.of # last.pre
   /\ OwnDurationNotElapsed) =>
    notification.current = last.pre

(***************************************************************************)
(* ListSpec: the VideoList page, its loads and the timers it sets          *)
(***************************************************************************)
\* The calls of loadVideos() by one VideoList.
MaxLoad == 2

\* An HTTP error that the interceptor passes on and whose body carries a
\* message of its own.
UnauthorizedBody ==
  [kind |-> "HttpErrorResponse", status |-> 400, body |-> "Unauthorized"]

\* The errors a load can be answered with.
ListErrors == {HttpErrorResponse(s) : s \in ErrorStatus} \cup {UnauthorizedBody}

\* The lists a load of this specification is answered with.
ListLoads ==
  {<<>>, <<[id |-> 1, category |-> "Action",
            created_at |-> DateAt(Today - 4 * DayMs)]>>}

\* String.prototype.includes
includes(s, part) ==
  \E i \in 1..(Len(s) - Len(part) + 1) : SubSeq(s, i, i + Len(part) - 1) = part

FailedToLoad == "Failed to load videos"

ErrorLoading == "Error loading videos. Please try again."

SessionExpiredRedirect ==
  "Session expired. You will be redirected to the login page..."

\* loadVideos(): the flag, the message, and a subscription to
\* loadAndSetupVideos().
loadVideos(vl) ==
  [vl EXCEPT !.isLoading = TRUE, !.errorMessage = "", !.issued = @ + 1,
             !.pending = @ \cup {vl.issued + 1}]

\* handleUnauthorizedError(message): the message, and setTimeout(..., 2000).
handleUnauthorizedError(vl, message) ==
  [vl EXCEPT !.errorMessage = message, !.timers = Append(@, vl.logins)]

\* A faulty handleLoadSuccess: isLoading is reset on the happy path only.
handleLoadSuccessStaysLoading(vl, response) ==
  IF response.success THEN [vl EXCEPT !.isLoading = FALSE]
  ELSE LET message == IF response.message # "" THEN response.message
                      ELSE FailedToLoad
       IN  IF includes(message, "autorisiert") \/ includes(message, "Unauthorized")
           THEN handleUnauthorizedError(vl, message)
           ELSE [vl EXCEPT !.errorMessage = message]

\* handleLoadSuccess(response)
handleLoadSuccess(vl, response) ==
  LET loaded == [vl EXCEPT !.isLoading = FALSE]
      message == IF response.message # "" THEN response.message
                 ELSE FailedToLoad
  IN  IF response.success THEN loaded
      ELSE IF includes(message, "autorisiert") \/ includes(message, "Unauthorized")
           THEN handleUnauthorizedError(loaded, message)
           ELSE [loaded EXCEPT !.errorMessage = message]

\* handleLoadError(error)
handleLoadError(vl, error) ==
  LET loaded == [vl EXCEPT !.isLoading = FALSE]
  IN  IF error.status = 401
      THEN handleUnauthorizedError(loaded, SessionExpiredRedirect)
      ELSE [loaded EXCEPT !.errorMessage = ErrorLoading]

\* The observer of loadVideos: `next` for an envelope, `error` for an error
\* notification (loadAndSetupVideos delivers none: handleError of
\* VideoService answers every error with an envelope).
videoSub(vl, notice, error) ==
  IF notice.kind = "error" THEN handleLoadError(vl, error)
  ELSE handleLoadSuccess(vl, notice)

\* The two subscriptions of setupSubscriptions, while they are open.
categorySubscription(vl, vs) ==
  IF vl.stage = "init"
  THEN [vl EXCEPT !.categories = getCategories(vs.videosSubject)]
  ELSE vl

userSubscription(vl, s) ==
  IF vl.stage = "init" THEN [vl EXCEPT !.currentUser = s.user] ELSE vl

\* The step that led to the state: its name, the load it is about, the
\* message before it, the session before it, and for a timer the number of
\* logins at the time it was set.
ListStep(act, req) ==
  [act |-> act, req |-> req, preError |-> videoList.errorMessage,
   auth |-> isAuthenticatedSubject, user |-> currentUserSubject, set |-> -1]

ListInit ==
  /\ deploy = "cookie"
  /\ localStorage = EmptyStore
  /\ isAuthenticatedSubject = TRUE
  /\ currentUserSubject \in Users
  /\ isRefreshing = FALSE
  /\ refreshTokenSubject = Null
  /\ reqs = [r \in Req |-> IdleReq]
  /\ url = VideosUrl
  /\ observer = NoObserver
  /\ emitted = NoEmissions
  /\ errorIn = NotCalled
  /\ thrown = NotThrown
  /\ race = NoRace
  /\ guard = IdleGuard
  /\ videoService = NewVideoService
  /\ register = NewRegister
  /\ videoList = NewVideoList
  /\ player = NewPlayer
  /\ notification = NoNotification
  /\ login = NewLogin
  /\ activate = NewActivate
  /\ last = ListStep("Init", 0)

\* What no step of this specification changes.
listFrame == <<deploy, isRefreshing, refreshTokenSubject, reqs, obsVars,
               errVars, race, guard, register, player, notification, login,
               activate>>

\* ngOnInit(): loadVideos(), then setupSubscriptions(), whose subscribers
\* get the current values at once.
ListOnInit ==
  /\ videoList.stage = "new"
  /\ videoList' =
       userSubscription(
         categorySubscription([loadVideos(videoList) EXCEPT !.stage = "init"],
                              videoService),
         Session)
  /\ last' = ListStep("ngOnInit", videoList.issued + 1)
  /\ UNCHANGED <<isAuthenticatedSubject, currentUserSubject, localStorage, url,
                 videoService, listFrame>>

\* loadVideos() is called again.
ListLoadVideos ==
  /\ videoList.stage = "init"
  /\ videoList.issued < MaxLoad
  /\ videoList' = loadVideos(videoList)
  /\ last' = ListStep("loadVideos", videoList.issued + 1)
  /\ UNCHANGED <<isAuthenticatedSubject, currentUserSubject, localStorage, url,
                 videoService, listFrame>>

\* The 2xx response to load r: the map callback of loadAndSetupVideos, the
\* subscriber of videos$, then the next callback of loadVideos.
List2xx(r, videos) ==
  /\ r \in videoList.pending
  /\ LET res == loadAndSetupVideosMap(videoService, videos, Today)
         vl == [videoList EXCEPT !.pending = @ \ {r}]
     IN  /\ videoService' = res.vs
         /\ videoList' =
              videoSub(categorySubscription(vl, res.vs), res.out[1], NoError)
  /\ last' = ListStep("response", r)
  /\ UNCHANGED <<isAuthenticatedSubject, currentUserSubject, localStorage, url,
                 listFrame>>

\* An error response to load r: the interceptor's catchError (logout and
\* redirect on 401), the catchError of loadAndSetupVideos, then the
\* callback of loadVideos.
ListError(r, error) ==
  /\ r \in videoList.pending
  /\ LET i == authInterceptorCookie(Session, error)
         res == loadAndSetupVideosCatch(videoService, i.err)
         vl == [videoList EXCEPT !.pending = @ \ {r}]
     IN  /\ SetSession(i.s)
         /\ url' = IF i.nav THEN LoginUrl ELSE url
         /\ videoService' = res.vs
         /\ videoList' = videoSub(userSubscription(vl, i.s), res.out[1], i.err)
  /\ last' = ListStep("response", r)
  /\ UNCHANGED listFrame

\* ngOnDestroy(): this.subscriptions.unsubscribe(); the timers keep running.
ListDestroy ==
  /\ videoList.stage = "init"
  /\ videoList' = [videoList EXCEPT !.stage = "destroyed", !.pending = {}]
  /\ last' = ListStep("ngOnDestroy", 0)
  /\ UNCHANGED <<isAuthenticatedSubject, currentUserSubject, localStorage, url,
                 videoService, listFrame>>

\* A login succeeds (the Login component): the map callback of login, and
\* the navigation to /videos.
ListLogin(body) ==
  /\ videoList.logins < MaxLogin
  /\ LET res == loginMap(Session, body)
     IN  /\ SetSession(res.s)
         /\ videoList' = [userSubscription(videoList, res.s) EXCEPT
                            !.logins = @ + 1]
  /\ url' = VideosUrl
  /\ last' = ListStep("login", 0)
  /\ UNCHANGED <<videoService, listFrame>>

\* The timer of handleUnauthorizedError fires: authService.logout() and
\* router.navigate(['/auth/login']).
ListTimer ==
  /\ videoList.timers # <<>>
  /\ SetSession(logout(Session))
  /\ url' = LoginUrl
  /\ videoList' = [userSubscription(videoList, logout(Session)) EXCEPT
                     !.timers = Tail(@)]
  /\ last' = [ListStep("timer", 0) EXCEPT !.set = Head(videoList.timers)]
  /\ UNCHANGED <<videoService, listFrame>>

ListNext ==
  \/ ListOnInit
  \/ ListLoadVideos
  \/ \E r \in 1..MaxLoad, videos \in ListLoads : List2xx(r, videos)
  \/ \E r \in 1..MaxLoad, error \in ListErrors : ListError(r, error)
  \/ ListDestroy
  \/ \E body \in Users : ListLogin(body)
  \/ ListTimer

ListSpec == ListInit /\ [][ListNext]_vars

\* C31: loadVideos() sets isLoading, clears errorMessage and issues a new
\* request, also after a failure; handling the response to a load resets
\* isLoading, whether the envelope is a success or a failure.
C31_LoadingNeverStuck ==
  /\ last.act \in {"ngOnInit", "loadVideos"} =>
       /\ videoList.isLoading
       /\ videoList.errorMessage = ""
       /\ last.req = videoList.issued
       /\ last.req \in videoList.pending
  /\ last.act = "response" => ~videoList.isLoading

\* loadVideos() called with the message of a failed load on display.
C31_Witness ==
  /\ last.act = "loadVideos"
  /\ last.preError # ""
  /\ videoList.isLoading

\* C37: the timer set after an unauthorized load does not log out a session
\* that began with a login made after the timer was set.
C37_TimerSparesNewerSession ==
  (last.act = "timer" /\ videoList.logins > last.set /\ last.auth) =>
    /\ isAuthenticatedSubject
    /\ currentUserSubject = last.user

(***************************************************************************)
(* LoginSpec: the Login component and its form                             *)
(***************************************************************************)
\* The login requests of one run, and those in flight together.
MaxLoginSubmit == 2

MaxLoginPending == 2

LoginPasswords == {"", "password"}

LoginFailedMessage == "Login failed. Please try again."

\* createLoginForm(): email is required and an email, password is required.
loginFormValid(value) ==
  required(value.email) /\ email(value.email) /\ required(value.password)

\* A control is given a new value: the valueChanges subscription of
\* setupFormListeners clears loginError.
loginPatchValue(c, value) == [c EXCEPT !.loginForm = value, !.loginError = ""]

\* onSubmit() up to the await: with an invalid form markAllFieldsAsTouched(),
\* else performLogin() sets the flag, clears the message and calls
\* authService.login(email, password).
loginOnSubmit(c) ==
  IF ~loginFormValid(c.loginForm)
  THEN [c EXCEPT !.touched = TRUE]
  ELSE [c EXCEPT !.isSubmitting = TRUE, !.loginError = "", !.pending = @ + 1,
                 !.calls = Append(@, c.loginForm)]

\* handleLoginError(error): error?.message || 'Login failed. Please try again.'
handleLoginError(c, error) ==
  [c EXCEPT !.loginError = IF error.message # "" THEN error.message
                           ELSE LoginFailedMessage]

\* A faulty handleLoginResponse: the router is not called.
handleLoginResponseStays(c, response) ==
  IF response.success THEN c ELSE handleLoginError(c, response)

\* handleLoginResponse(response)
handleLoginResponse(c, response) ==
  IF response.success
  THEN [c EXCEPT !.navigated = Append(@, VideosUrl)]
  ELSE handleLoginError(c, response)

\* performLogin() after the await: the try or the catch block, then finally.
performLoginResolved(c, response) ==
  [handleLoginResponse(c, response) EXCEPT
     !.isSubmitting = FALSE, !.pending = @ - 1]

performLoginRejected(c, error) ==
  [handleLoginError(c, error) EXCEPT !.isSubmitting = FALSE, !.pending = @ - 1]

\* The envelope login() delivers for a 2xx response with a body.
LoginEnvelope ==
  [success |-> TRUE, errors |-> <<>>, message |-> "Operation successful"]

\* The step that led to the state: its name, the component before it,
\* and whether login() delivered a value.
LoginStep(act) == [act |-> act, pre |-> NewLogin, ok |-> FALSE, status |-> -1]

LoginInit ==
  /\ deploy = "cookie"
  /\ localStorage = EmptyStore
  /\ isAuthenticatedSubject = FALSE
  /\ currentUserSubject = Null
  /\ isRefreshing = FALSE
  /\ refreshTokenSubject = Null
  /\ reqs = [r \in Req |-> IdleReq]
  /\ url = LoginUrl
  /\ observer = NoObserver
  /\ emitted = NoEmissions
  /\ errorIn = NotCalled
  /\ thrown = NotThrown
  /\ race = NoRace
  /\ guard = IdleGuard
  /\ videoService = NewVideoService
  /\ register = NewRegister
  /\ videoList = NewVideoList
  /\ player = NewPlayer
  /\ notification = NoNotification
  /\ login = NewLogin
  /\ activate = NewActivate
  /\ last = LoginStep("Init")

\* What no step of this specification changes.
loginFrame == <<deploy, isRefreshing, refreshTokenSubject, reqs, obsVars,
                errVars, race, guard, videoService, register, videoList,
                player, notification, activate>>

\* The user types into a control.
SetLoginEmail(e) ==
  /\ e # login.loginForm.email
  /\ login' = loginPatchValue(login, [login.loginForm EXCEPT !.email = e])
  /\ last' = LoginStep("patchValue")
  /\ UNCHANGED <<isAuthenticatedSubject, currentUserSubject, localStorage, url,
                 loginFrame>>

SetLoginPassword(p) ==
  /\ p # login.loginForm.password
  /\ login' = loginPatchValue(login, [login.loginForm EXCEPT !.password = p])
  /\ last' = LoginStep("patchValue")
  /\ UNCHANGED <<isAuthenticatedSubject, currentUserSubject, localStorage, url,
                 loginFrame>>

\* The form is submitted.
LoginOnSubmit ==
  /\ loginFormValid(login.loginForm) =>
       login.pending < MaxLoginPending /\ Len(login.calls) < MaxLoginSubmit
  /\ login' = loginOnSubmit(login)
  /\ last' = [LoginStep("onSubmit") EXCEPT !.pre = login]
  /\ UNCHANGED <<isAuthenticatedSubject, currentUserSubject, localStorage, url,
                 loginFrame>>

\* The 2xx response to a login request: the map callback of login; the
\* promise of lastValueFrom resolves with the envelope, or for a null body
\* rejects with the error of handleErrorResponse.
LoginResponse2xx(body) ==
  /\ login.pending > 0
  /\ LET res == loginMap(Session, body)
     IN  /\ SetSession(res.s)
         /\ IF res.out.ok
            THEN /\ login' = performLoginResolved(login, LoginEnvelope)
                 /\ url' = VideosUrl
            ELSE /\ login' = performLoginRejected(
                               login, apiError(ErrorWith("TypeError", NoPayload)))
                 /\ url' = url
         /\ last' = [LoginStep("Response") EXCEPT
                       !.pre = login, !.ok = res.out.ok, !.status = 200]
  /\ UNCHANGED loginFrame

\* An error response: the interceptor's catchError (logout and redirect on
\* 401), handleErrorResponse, and the promise rejects.
LoginResponseError(status, payload) ==
  /\ login.pending > 0
  /\ LET i == authInterceptorCookie(Session, HttpErrorResponse(status))
         error == IF i.nav THEN apiError(ErrorWith("Error", NoPayload))
                  ELSE apiError(ErrorWith("HttpErrorResponse", payload))
     IN  /\ SetSession(loginCatch(i.s, i.err).s)
         /\ url' = IF i.nav THEN LoginUrl ELSE url
         /\ login' = performLoginRejected(login, error)
         /\ last' = [LoginStep("Response") EXCEPT !.pre = login, !.status = status]
  /\ UNCHANGED loginFrame

LoginNext ==
  \/ \E e \in Emails : SetLoginEmail(e)
  \/ \E p \in LoginPasswords : SetLoginPassword(p)
  \/ LoginOnSubmit
  \/ \E body \in LoginBodies : LoginResponse2xx(body)
  \/ \E status \in ErrorStatus, payload \in RegisterPayloads :
       LoginResponseError(status, payload)

LoginSpec == LoginInit /\ [][LoginNext]_vars

\* C33: when the login of a submitted valid form has completed, isSubmitting
\* is false and either the login succeeded and the component navigated to
\* /videos, or it failed, loginError is not empty and the component did not
\* navigate; submitting an invalid form issues no login request.
C33_SubmitEndsInOneOutcome ==
  /\ last.act = "Response" =>
       /\ ~login.isSubmitting
       /\ IF last.ok
          THEN /\ login.navigated = Append(last.pre.navigated, VideosUrl)
               /\ isAuthenticatedSubject
          ELSE /\ login.loginError # ""
               /\ login.navigated = last.pre.navigated
  /\ (last.act = "onSubmit" /\ ~loginFormValid(last.pre.loginForm)) =>
       /\ login.calls = last.pre.calls
       /\ login.pending = last.pre.pending
       /\ login.isSubmitting = last.pre.isSubmitting

\* Two logins were submitted and the one answered last succeeded.
C33_Witness ==
  /\ last.act = "Response"
  /\ last.ok
  /\ Len(login.calls) = 2
  /\ login.navigated = <<VideosUrl>>
  /\ ~login.isSubmitting

(***************************************************************************)
(* ActivateSpec: the Activate component                                    *)
(***************************************************************************)
\* The emissions of the route's query parameters in one run.
MaxParams == 3

\* The values of the query parameters uid and token; "" is a missing one.
Uids == {"", "MQ"}

ActivationTokens == {"", "abc"}

InvalidLink ==
  "Invalid activation link. Please check your email for the correct link."

ActivationFailed == "Activation failed"

ActivationErrored == "An error occurred during activation. Please try again."

\* A faulty handleActivationError: isActivating is left as it is.
handleActivationErrorKeepsActivating(a, message) ==
  [a EXCEPT !.activationSuccess = FALSE, !.activationError = TRUE,
            !.errorMessage = message]

\* handleActivationError(message)
handleActivationError(a, message) ==
  [a EXCEPT !.isActivating = FALSE, !.activationSuccess = FALSE,
            !.activationError = TRUE, !.errorMessage = message]

\* handleActivationSuccess()
handleActivationSuccess(a) ==
  [a EXCEPT !.isActivating = FALSE, !.activationSuccess = TRUE,
            !.activationError = FALSE]

\* redirectToLoginAfterDelay(): setTimeout(..., 2500)
redirectToLoginAfterDelay(a) == [a EXCEPT !.timers = @ + 1]

\* processActivationParams(params): uid and token are read; when one is
\* missing the error state, else activateAccount() calls the service.
processActivationParams(a, uid, token) ==
  LET b == [a EXCEPT !.uid = uid, !.token = token, !.emissions = @ + 1]
  IN  IF uid = "" \/ token = ""
      THEN handleActivationError(b, InvalidLink)
      ELSE [b EXCEPT !.calls = Append(@, <<uid, token>>), !.pending = @ + 1]

\* handleActivationResponse(response)
handleActivationResponse(a, response) ==
  IF response.success
  THEN redirectToLoginAfterDelay(handleActivationSuccess(a))
  ELSE handleActivationError(a, IF response.message # "" THEN response.message
                                ELSE ActivationFailed)

\* The catch block of activateAccount().
activateAccountCatch(a, error) ==
  handleActivationError(a, IF error.message # "" THEN error.message
                           ELSE ActivationErrored)

\* The step that led to the state: its name and the component before it.
ActivateStep(act) == [act |-> act, pre |-> activate]

ActivateInit ==
  /\ deploy = "cookie"
  /\ localStorage = EmptyStore
  /\ isAuthenticatedSubject = FALSE
  /\ currentUserSubject = Null
  /\ isRefreshing = FALSE
  /\ refreshTokenSubject = Null
  /\ reqs = [r \in Req |-> IdleReq]
  /\ url = "/auth/activate"
  /\ observer = NoObserver
  /\ emitted = NoEmissions
  /\ errorIn = NotCalled
  /\ thrown = NotThrown
  /\ race = NoRace
  /\ guard = IdleGuard
  /\ videoService = NewVideoService
  /\ register = NewRegister
  /\ videoList = NewVideoList
  /\ player = NewPlayer
  /\ notification = NoNotification
  /\ login = NewLogin
  /\ activate = NewActivate
  /\ last = [act |-> "Init", pre |-> NewActivate]

\* What no step of this specification changes.
activateFrame == <<deploy, isRefreshing, refreshTokenSubject, reqs, obsVars,
                   errVars, race, guard, videoService, register, videoList,
                   player, notification, login>>

\* The route emits its query parameters: at ngOnInit, and when they change.
ActivateParams(uid, token) ==
  /\ activate.emissions < MaxParams
  /\ activate.emissions > 0 => <<uid, token>> # <<activate.uid, activate.token>>
  /\ activate' = processActivationParams(activate, uid, token)
  /\ last' = ActivateStep("params")
  /\ UNCHANGED <<isAuthenticatedSubject, currentUserSubject, localStorage, url,
                 activateFrame>>

\* The 2xx response to an activation request: the promise resolves with the
\* envelope of handleSuccessResponse, or for a null body rejects with the
\* error of handleErrorResponse.
Activate2xx(body) ==
  /\ activate.pending > 0
  /\ LET res == registerMap(Session, body)
         b == [activate EXCEPT !.pending = @ - 1]
     IN  activate' =
           IF res.out.ok
           THEN handleActivationResponse(b, LoginEnvelope)
           ELSE activateAccountCatch(b, apiError(ErrorWith("TypeError", NoPayload)))
  /\ last' = ActivateStep("Response")
  /\ UNCHANGED <<isAuthenticatedSubject, currentUserSubject, localStorage, url,
                 activateFrame>>

\* An error response: the interceptor's catchError (logout and redirect on
\* 401), handleErrorResponse, and the promise rejects.
ActivateError(status, payload) ==
  /\ activate.pending > 0
  /\ LET i == authInterceptorCookie(Session, HttpErrorResponse(status))
         error == IF i.nav THEN apiError(ErrorWith("Error", NoPayload))
                  ELSE apiError(ErrorWith("HttpErrorResponse", payload))
     IN  /\ SetSession(registerCatch(i.s, i.err).s)
         /\ url' = IF i.nav THEN LoginUrl ELSE url
         /\ activate' = activateAccountCatch([activate EXCEPT !.pending = @ - 1],
                                             error)
  /\ last' = ActivateStep("Response")
  /\ UNCHANGED activateFrame

\* The timer of redirectToLoginAfterDelay fires.
ActivateTimer ==
  /\ activate.timers > 0
  /\ activate' = [activate EXCEPT !.timers = @ - 1]
  /\ url' = LoginUrl
  /\ last' = ActivateStep("timer")
  /\ UNCHANGED <<isAuthenticatedSubject, currentUserSubject, localStorage,
                 activateFrame>>

ActivateNext ==
  \/ \E uid \in Uids, token \in ActivationTokens : ActivateParams(uid, token)
  \/ \E body \in {NullBody, NoUserBody} : Activate2xx(body)
  \/ \E status \in ErrorStatus, payload \in RegisterPayloads :
       ActivateError(status, payload)
  \/ ActivateTimer

ActivateSpec == ActivateInit /\ [][ActivateNext]_vars

\* The flags of the three states that are set.
FlagsSet ==
  {f \in {"isActivating", "activationSuccess", "activationError"} : activate[f]}

\* C34: exactly one of isActivating, activationSuccess and activationError
\* is true in every state, and query parameters without uid or token lead
\* to the error state without a call of authService.activateAccount.
C34_ExactlyOneActivationState ==
  /\ Cardinality(FlagsSet) = 1
  /\ (last.act = "params" /\ (activate.uid = "" \/ activate.token = "")) =>
       /\ activate.activationError
       /\ activate.calls = last.pre.calls
       /\ activate.pending = last.pre.pending

\* An activation succeeded, and then parameters without a token arrived.
C34_Witness ==
  /\ last.act = "params"
  /\ activate.token = ""
  /\ last.pre.activationSuccess
  /\ activate.activationError

====
